---- MODULE Spec2Model ----
(***************************************************************************)
(* Serpentis Nexus: the snake (agent), the spatial hash and the game       *)
(* engine, as state machines.                                              *)
(*                                                                         *)
(* Units.  JavaScript numbers are kept as integers in a fixed scale:       *)
(*   - positions are grid cells (integers, as Math.round leaves them);     *)
(*   - times are milliseconds;                                             *)
(*   - speeds are stored in halves      (speed 1   is 2,  1.5 is 3);       *)
(*   - forces are stored in tenths      (force 0.5 is 5);                  *)
(*   - a movement is computed in hundredths and rounded as Math.round      *)
(*     rounds (half towards +infinity);                                    *)
(*   - the coordinates, sizes, radii and distances given to the spatial    *)
(*     hash are stored in halves        (x = 19.5 is 39, a width 1 is 2);  *)
(*   - the position and the strength of a gravity well are stored in       *)
(*     tenths, and the forces it computes are exact fractions.             *)
(***************************************************************************)
EXTENDS Integers, Sequences, FiniteSets, TLC

VARIABLES
    snake,      \* the Snake object under test; in SpecEngine the engine's playerSnake
    timers,     \* pending setTimeout callbacks: of snake.activateBoost (their delays, ms),
                \* and in SpecGoal of startMorphing (the patterns they will set)
    call,       \* the last operation recorded: [op, arg (a name), num, args (numbers), ret]
    cells,      \* SpatialHash.cells   : cell key -> insertion-ordered set of objects
    objects,    \* SpatialHash.objects : object -> [cellKeys, x, y, width, height]
    result,     \* the value returned by the last SpatialHash query
    engine,     \* GameEngine: [gameState, lives, level, enemies, collectibles]
    constellation,  \* ConstellationManager: [currentPattern, targetPattern, collectedStars,
                    \* morphingActive, morphTimer, completedPatterns, recentPatterns]
    well,       \* a GravityWell: [x, y, strength, radius, type, active, pulseIntensity]
    levels,     \* LevelManager: [currentLevel, levelData, proceduralSeed], with the
                \* item 'serpentis_progress' of localStorage in the field stored
    app,        \* SerpentisNexus: [currentMode, screen, frames]
    enemyAI     \* the EnemyAI of the engine's first enemy: [pathfindingCooldown,
                \* decisionCooldown, stuckCounter, lastPosition]

vars == <<snake, timers, call, cells, objects, result, engine, constellation, well,
          levels, app, enemyAI>>

(***************************************************************************)
(* Bounds of the model.                                                    *)
(***************************************************************************)
MaxX == 2
MaxSegments == 2
MaxForce == 20
MaxTimers == 1

\* The cells a snake under test may visit: two rows of MaxX + 1 cells.
BoxRows == {0, 1}
InBox(x, y) == x \in 0..MaxX /\ y \in BoxRows

(***************************************************************************)
(* Small helpers on sequences.                                             *)
(***************************************************************************)
Min(a, b) == IF a < b THEN a ELSE b
Abs(a) == IF a < 0 THEN -a ELSE a
Range(s) == {s[i] : i \in DOMAIN s}
RemoveAt(s, i) == [j \in 1..(Len(s) - 1) |-> IF j < i THEN s[j] ELSE s[j + 1]]
CountType(segs, t) == Cardinality({i \in DOMAIN segs : segs[i].type = t})

\* Math.round on a value given in hundredths: the nearest integer, a half going up.
RoundHundredths(m) == (m + 50) \div 100

(***************************************************************************)
(* Snake (src/unnamed/part_001, class Snake).                              *)
(***************************************************************************)
DirNames == {"up", "down", "left", "right"}
\* What a caller may pass to setDirection: a direction name or any other string.
DirInputs == DirNames \cup {"other"}
SegmentKinds == {"normal", "armored", "booster", "magnetic"}

\* setDirection's table `directions`.
directions(d) ==
    CASE d = "up" -> [x |-> 0, y |-> -1]
      [] d = "down" -> [x |-> 0, y |-> 1]
      [] d = "left" -> [x |-> -1, y |-> 0]
      [] d = "right" -> [x |-> 1, y |-> 0]

\* setDirection's table `opposite`; a string that is no key gives undefined.
opposite(d) ==
    CASE d = "up" -> "down"
      [] d = "down" -> "up"
      [] d = "left" -> "right"
      [] d = "right" -> "left"
      [] OTHER -> "undefined"

getCurrentDirectionName(s) ==
    LET x == s.direction.x
        y == s.direction.y
    IN  IF x = 0 /\ y = -1 THEN "up"
        ELSE IF x = 0 /\ y = 1 THEN "down"
        ELSE IF x = -1 /\ y = 0 THEN "left"
        ELSE "right"

\* The power-up map from the segment counts: 'armor' and 'magnetism' entries.
PowerUps(armored, magnetic) ==
    [k \in ({"armor"} \cap (IF armored > 0 THEN {"armor"} ELSE {}))
           \cup ({"magnetism"} \cap (IF magnetic > 0 THEN {"magnetism"} ELSE {}))
       |-> IF k = "armor"
           THEN [level |-> armored]
           ELSE [level |-> magnetic, range |-> magnetic * 30]]

NewSnake(x, y, type) ==
    [type |-> type,
     segments |-> <<[x |-> x, y |-> y, type |-> "head"]>>,
     direction |-> [x |-> 1, y |-> 0],
     nextDirection |-> [x |-> 1, y |-> 0],
     alive |-> TRUE,
     speed |-> 2,
     baseSpeed |-> 2,
     boostActive |-> FALSE,
     boostCooldown |-> 0,
     invulnerable |-> FALSE,
     invulnerabilityTime |-> 0,
     gravitationalForce |-> [x |-> 0, y |-> 0],
     activePowerUps |-> PowerUps(0, 0)]

reset(s, x, y) ==
    [s EXCEPT !.segments = <<[x |-> x, y |-> y, type |-> "head"]>>,
              !.direction = [x |-> 1, y |-> 0],
              !.nextDirection = [x |-> 1, y |-> 0],
              !.alive = TRUE,
              !.speed = s.baseSpeed,
              !.boostActive = FALSE,
              !.boostCooldown = 0,
              !.invulnerable = FALSE,
              !.invulnerabilityTime = 0,
              !.gravitationalForce = [x |-> 0, y |-> 0],
              !.activePowerUps = PowerUps(0, 0)]

\* Mutant of setDirection: the reversal test reads the buffered direction.
setDirection_testsBuffered(s, d) ==
    IF ~s.alive THEN s
    ELSE IF opposite(d) = getCurrentDirectionName([s EXCEPT !.direction = s.nextDirection]) THEN s
    ELSE IF d \in DirNames THEN [s EXCEPT !.nextDirection = directions(d)]
    ELSE s

\* Mutant of setDirection: the direction takes effect at once.
setDirection_immediate(s, d) ==
    IF ~s.alive THEN s
    ELSE IF opposite(d) = getCurrentDirectionName(s) THEN s
    ELSE IF d \in DirNames
         THEN [s EXCEPT !.nextDirection = directions(d), !.direction = directions(d)]
    ELSE s

setDirection(s, d) ==
    IF ~s.alive THEN s
    ELSE IF opposite(d) = getCurrentDirectionName(s) THEN s
    ELSE IF d \in DirNames THEN [s EXCEPT !.nextDirection = directions(d)]
    ELSE s

setInvulnerable(s, duration) ==
    [s EXCEPT !.invulnerable = TRUE, !.invulnerabilityTime = duration]

updateSegmentEffects(s) ==
    [s EXCEPT !.activePowerUps =
        PowerUps(CountType(s.segments, "armored"), CountType(s.segments, "magnetic"))]

\* Mutant of grow: the derived capabilities are not recomputed.
grow_staleEffects(s, segmentType) ==
    IF ~s.alive THEN s
    ELSE LET tail == s.segments[Len(s.segments)]
         IN  [s EXCEPT !.segments =
                 Append(s.segments, [x |-> tail.x, y |-> tail.y, type |-> segmentType])]

\* Mutant of grow: a dead snake grows too.
grow_noAliveCheck(s, segmentType) ==
    LET tail == s.segments[Len(s.segments)]
    IN  updateSegmentEffects(
            [s EXCEPT !.segments =
                Append(s.segments, [x |-> tail.x, y |-> tail.y, type |-> segmentType])])

grow(s, segmentType) ==
    IF ~s.alive THEN s
    ELSE LET tail == s.segments[Len(s.segments)]
         IN  updateSegmentEffects(
                 [s EXCEPT !.segments =
                     Append(s.segments, [x |-> tail.x, y |-> tail.y, type |-> segmentType])])

applyGravitationalForce(s, fx, fy) ==
    [s EXCEPT !.gravitationalForce =
        [x |-> s.gravitationalForce.x + fx, y |-> s.gravitationalForce.y + fy]]

\* The boost's duration in ms for n booster segments (the setTimeout delay).
BoostDelay(n) == 1000 + n * 200

activateBoost(s) ==
    LET boosterSegments == CountType(s.segments, "booster")
    IN  IF ~s.alive \/ s.boostCooldown > 0 THEN s
        ELSE IF boosterSegments = 0 THEN s
        ELSE [s EXCEPT !.boostActive = TRUE,
                       !.speed = (s.baseSpeed * (2 + boosterSegments)) \div 2,
                       !.boostCooldown = 3000]

\* The callback activateBoost hands to setTimeout.
boostTimeout(s) == [s EXCEPT !.boostActive = FALSE, !.speed = s.baseSpeed]

\* Mutant of moveSegments: the positions are not saved first, so each segment
\* takes the position its predecessor has just been given.
moveSegments_noSave(s, dx, dy) ==
    IF Len(s.segments) = 0 THEN s
    ELSE [s EXCEPT !.segments =
             [i \in DOMAIN s.segments |->
                 IF i = 1
                 THEN [s.segments[1] EXCEPT !.x = @ + dx, !.y = @ + dy]
                 ELSE [s.segments[i] EXCEPT !.x = s.segments[1].x + dx,
                                            !.y = s.segments[1].y + dy]]]

moveSegments(s, dx, dy) ==
    IF Len(s.segments) = 0 THEN s
    ELSE LET previousPositions == s.segments
         IN  [s EXCEPT !.segments =
                 [i \in DOMAIN s.segments |->
                     IF i = 1
                     THEN [s.segments[1] EXCEPT !.x = @ + dx, !.y = @ + dy]
                     ELSE [s.segments[i] EXCEPT !.x = previousPositions[i - 1].x,
                                                !.y = previousPositions[i - 1].y]]]

\* direction * speed + gravitationalForce * 0.3 on one axis, in hundredths.
Movement(dir, speed, force) == dir * speed * 50 + force * 3

\* Snake.update(deltaTime), deltaTime * 1000 given as dtMs.
update(s, dtMs) ==
    IF ~s.alive THEN s
    ELSE LET cd == IF s.boostCooldown > 0 THEN s.boostCooldown - dtMs ELSE s.boostCooldown
             it == IF s.invulnerabilityTime > 0
                   THEN s.invulnerabilityTime - dtMs ELSE s.invulnerabilityTime
             inv == IF s.invulnerabilityTime > 0 /\ it <= 0 THEN FALSE ELSE s.invulnerable
             s1 == [s EXCEPT !.boostCooldown = cd,
                             !.invulnerabilityTime = it,
                             !.invulnerable = inv,
                             !.direction = s.nextDirection]
             moveX == Movement(s1.direction.x, s1.speed, s1.gravitationalForce.x)
             moveY == Movement(s1.direction.y, s1.speed, s1.gravitationalForce.y)
             s2 == moveSegments(s1, RoundHundredths(moveX), RoundHundredths(moveY))
         IN  [s2 EXCEPT !.gravitationalForce = [x |-> 0, y |-> 0]]

getHead(s) == s.segments[1]
getEffectLevel(s, e) == IF e \in DOMAIN s.activePowerUps THEN s.activePowerUps[e].level ELSE 0
\* The index the loop of removeArmoredSegment stops at: the last armored
\* segment behind the head, 0 when there is none.
LastArmored(segs) ==
    LET idx == {i \in 2..Len(segs) : segs[i].type = "armored"}
    IN  IF idx = {} THEN 0 ELSE CHOOSE i \in idx : \A j \in idx : j <= i

\* Mutant of removeArmoredSegment: the tail is removed whatever its kind.
removeArmoredSegment_tail(s) ==
    IF Len(s.segments) < 2 THEN s
    ELSE updateSegmentEffects([s EXCEPT !.segments = RemoveAt(s.segments, Len(s.segments))])

removeArmoredSegment(s) ==
    LET i == LastArmored(s.segments)
    IN  IF i = 0 THEN s
        ELSE updateSegmentEffects([s EXCEPT !.segments = RemoveAt(s.segments, i)])

\* survivalChance in tenths: Math.min(armorLevel * 0.2, 0.8).
survivalChance(armorLevel) == Min(armorLevel * 2, 8)

\* Mutant of takeDamage: the invulnerability is not looked at.
takeDamage_ignoresInvulnerable(s, random) ==
    LET armorLevel == getEffectLevel(s, "armor")
    IN  IF armorLevel > 0 /\ random < survivalChance(armorLevel)
        THEN [snake |-> setInvulnerable(removeArmoredSegment(s), 1000), ret |-> FALSE]
        ELSE [snake |-> [s EXCEPT !.alive = FALSE], ret |-> TRUE]

\* Snake.takeDamage(); random is the value of Math.random() in tenths (0..9).
\* Gives the snake afterwards and the value returned.
takeDamage(s, random) ==
    IF s.invulnerable THEN [snake |-> s, ret |-> FALSE]
    ELSE LET armorLevel == getEffectLevel(s, "armor")
         IN  IF armorLevel > 0 /\ random < survivalChance(armorLevel)
             THEN [snake |-> setInvulnerable(removeArmoredSegment(s), 1000), ret |-> FALSE]
             ELSE [snake |-> [s EXCEPT !.alive = FALSE], ret |-> TRUE]

(***************************************************************************)
(* SpecSnake: one Snake driven through its public methods.                 *)
(***************************************************************************)
\* The values of applyGravitationalForce's arguments, in tenths.
ForceInputs == {-20, 0, 20}
\* The values of update's deltaTime, in ms.
DeltaTimes == {500, 1000}
\* The values of Math.random(), in tenths.
RandomTenths == {0, 3, 7, 9}

NoCall == [op |-> "none", arg |-> "none", num |-> 0, ret |-> FALSE, args |-> <<>>]
\* The record of a call: its name, its string argument, its numeric argument
\* and the boolean it returned (FALSE when it returns nothing).
Called(op, arg, num, ret) ==
    [op |-> op, arg |-> arg, num |-> num, ret |-> ret, args |-> <<>>]

\* The engine of the specifications that run no engine.
(***************************************************************************)
(* GravityWell.applyGravity (src/unnamed/part_001).  The position and the  *)
(* strength of a well are in tenths and its radius in pixels.  A number    *)
(* the code computes is the exact fraction [n, d] in lowest terms with     *)
(* d > 0; the fraction 0/0 is NaN, which every operation passes on.  The   *)
(* wells and heads of the model lie at whole distances, so that Math.sqrt  *)
(* is exact.  pulseIntensity stands for Math.sin(phase * 3) * 0.5 + 0.5,   *)
(* a number from 0 to 1 that the phase of the well determines.             *)
(***************************************************************************)
RECURSIVE GCD(_, _)
GCD(a, b) == IF b = 0 THEN a ELSE GCD(b, a % b)

NaN == [n |-> 0, d |-> 0]
IsNaN(q) == q.d = 0

\* The fraction n / d, for whole numbers n and d with d >= 0.
Frac(n, d) ==
    IF d = 0 THEN NaN
    ELSE LET g == GCD(Abs(n), d) IN [n |-> n \div g, d |-> d \div g]

FracAdd(p, q) ==
    IF IsNaN(p) \/ IsNaN(q) THEN NaN ELSE Frac(p.n * q.d + q.n * p.d, p.d * q.d)
FracNeg(p) == IF IsNaN(p) THEN NaN ELSE [n |-> -p.n, d |-> p.d]
FracMul(p, q) == IF IsNaN(p) \/ IsNaN(q) THEN NaN ELSE Frac(p.n * q.n, p.d * q.d)
\* p <= q, which is false when one of them is NaN.
FracLeq(p, q) == ~IsNaN(p) /\ ~IsNaN(q) /\ p.n * q.d <= q.n * p.d

\* Math.sqrt of a perfect square.
Sqrt(n) == CHOOSE r \in 0..n : r * r = n

\* calculateAttractiveForce(dx, dy, distance, isY), all in tenths; the value
\* is strength * component / (distance * distance + 1), kept within +-0.5.
calculateAttractiveForce(w, dx, dy, distance, isY) ==
    IF distance = 0 THEN Frac(0, 1)
    ELSE LET component == IF isY THEN dy ELSE dx
             force == Frac(w.strength * component, distance * distance + 100)
         IN  IF FracLeq(Frac(1, 2), force) THEN Frac(1, 2)
             ELSE IF FracLeq(force, Frac(-1, 2)) THEN Frac(-1, 2)
             ELSE force

\* calculateTangentialForce: strength * 0.3 / (distance + 1).
calculateTangentialForce(w, dx, dy, distance) ==
    Frac(3 * w.strength, 10 * (distance + 10))

\* The force applyGravity computes for a head at the cell (headX, headY);
\* handed tells whether it reaches snake.applyGravitationalForce.
gravityForce(w, alive, headX, headY) ==
    LET dx == w.x - (10 * headX + 5)
        dy == w.y - (10 * headY + 5)
        distance == Sqrt(dx * dx + dy * dy)
        attractX == calculateAttractiveForce(w, dx, dy, distance, FALSE)
        attractY == calculateAttractiveForce(w, dx, dy, distance, TRUE)
        tangentForce == calculateTangentialForce(w, dx, dy, distance)
    IN  IF ~w.active \/ ~alive THEN [handed |-> FALSE, x |-> Frac(0, 1), y |-> Frac(0, 1)]
        ELSE IF 2 * distance > w.radius THEN [handed |-> FALSE, x |-> Frac(0, 1), y |-> Frac(0, 1)]
        ELSE CASE w.type = "attract" -> [handed |-> TRUE, x |-> attractX, y |-> attractY]
               [] w.type = "repel" ->
                      [handed |-> TRUE, x |-> FracNeg(attractX), y |-> FracNeg(attractY)]
               [] w.type = "vortex" ->
                      [handed |-> TRUE,
                       x |-> FracAdd(attractX,
                                     FracNeg(FracMul(Frac(dy, distance), tangentForce))),
                       y |-> FracAdd(attractY, FracMul(Frac(dx, distance), tangentForce))]
               [] w.type = "pulse" ->
                      [handed |-> TRUE,
                       x |-> FracMul(attractX, w.pulseIntensity),
                       y |-> FracMul(attractY, w.pulseIntensity)]

\* snake.applyGravitationalForce(fx, fy) on a force buffer of fractions.
accumulate(buffer, fx, fy) == [x |-> FracAdd(buffer.x, fx), y |-> FracAdd(buffer.y, fy)]

\* applyGravity(snake): the force buffer of the snake afterwards.
applyGravity(w, s) ==
    LET f == gravityForce(w, s.alive, s.segments[1].x, s.segments[1].y)
    IN  IF f.handed THEN [s EXCEPT !.gravitationalForce = accumulate(@, f.x, f.y)] ELSE s

\* Math.round of a fraction: the nearest integer, a half going up.
RoundFrac(p) == (2 * p.n + p.d) \div (2 * p.d)

\* Snake.update(deltaTime) on a snake whose force buffer holds the fractions
\* applyGravity has handed to it: the move on an axis is
\* Math.round(direction * speed + gravitationalForce * 0.3).
updateExact(s, dtMs) ==
    IF ~s.alive THEN s
    ELSE LET s1 == [update([s EXCEPT !.gravitationalForce = [x |-> 0, y |-> 0]], dtMs)
                       EXCEPT !.segments = s.segments]
             moveX == FracAdd(Frac(s1.direction.x * s1.speed, 2),
                              FracMul(s.gravitationalForce.x, Frac(3, 10)))
             moveY == FracAdd(Frac(s1.direction.y * s1.speed, 2),
                              FracMul(s.gravitationalForce.y, Frac(3, 10)))
             s2 == moveSegments(s1, RoundFrac(moveX), RoundFrac(moveY))
         IN  [s2 EXCEPT !.gravitationalForce =
                 [x |-> Frac(0, 1), y |-> Frac(0, 1)]]

\* new GravityWell(x, y, strength, radius, type), with the phase in ms;
\* pulseIntensity is Math.sin(phase * 3) * 0.5 + 0.5, which is 0.5 at phase 0.
NewGravityWell(x, y, strength, radius, type) ==
    [x |-> x, y |-> y, strength |-> strength, radius |-> radius, type |-> type,
     active |-> TRUE, phase |-> 0, pulseIntensity |-> Frac(1, 2)]

\* The well of the specifications that have none.
WellIdle ==
    well = [x |-> 0, y |-> 0, strength |-> 10, radius |-> 50, type |-> "attract",
            active |-> TRUE, pulseIntensity |-> Frac(1, 2)]

(***************************************************************************)
(* ConstellationManager (src/src/systems/constellation-manager.js).  A     *)
(* pattern is known by its key; currentPattern holds the key of the        *)
(* pattern object it refers to.  An entry of completedPatterns is the key  *)
(* of the pattern completed (its name, date and bonus are left out).  The  *)
(* procedural patterns are left out, so the table of patterns is fixed.    *)
(***************************************************************************)
Patterns == {"triangle", "cross", "spiral", "diamond"}

stars(pattern) ==
    CASE pattern = "triangle" -> {"alpha", "beta", "gamma"}
      [] pattern = "cross" -> {"north", "south", "east", "west", "center"}
      [] pattern = "spiral" -> {"core", "arm1", "arm2", "arm3", "arm4", "arm5"}
      [] pattern = "diamond" -> {"top", "left", "right", "bottom"}

\* setPattern(patternName)
setPattern(cm, patternName) ==
    IF patternName \notin Patterns
    THEN cm
    ELSE [cm EXCEPT !.currentPattern = patternName,
                    !.targetPattern = patternName,
                    !.collectedStars = {},
                    !.morphingActive = FALSE,
                    !.morphTimer = 0]

\* The manager the constructor builds.
NewConstellationManager ==
    setPattern([currentPattern |-> "none", targetPattern |-> "triangle",
                collectedStars |-> {}, morphingActive |-> FALSE, morphTimer |-> 0,
                completedPatterns |-> <<>>, recentPatterns |-> <<>>],
               "triangle")

\* The patterns selectNextPattern may return: one of those that are not in
\* recentPatterns, or any one when there is none left.
availablePatterns(cm) == {pattern \in Patterns : pattern \notin Range(cm.recentPatterns)}
selectable(cm) ==
    IF availablePatterns(cm) = {} THEN Patterns ELSE availablePatterns(cm)

\* selectNextPattern(), when the random choice is nextPattern: the manager
\* afterwards.
selectNextPattern(cm, nextPattern) ==
    IF availablePatterns(cm) = {}
    THEN [cm EXCEPT !.recentPatterns = <<>>]
    ELSE LET pushed == Append(cm.recentPatterns, cm.targetPattern)
         IN  [cm EXCEPT !.recentPatterns =
                            IF Len(pushed) > 2 THEN Tail(pushed) ELSE pushed]

\* startMorphing(): the manager afterwards; the callback it schedules sets
\* nextPattern.
startMorphing(cm, nextPattern) ==
    selectNextPattern([cm EXCEPT !.morphingActive = TRUE, !.morphTimer = 3000],
                      nextPattern)

\* completeConstellation without the entry in the history.
completeConstellation_noHistory(cm, nextPattern) == startMorphing(cm, nextPattern)

\* completeConstellation()
completeConstellation(cm, nextPattern) ==
    startMorphing([cm EXCEPT !.completedPatterns = Append(@, cm.targetPattern)],
                  nextPattern)

\* Whether collectStar(starType) completes the constellation.
completes(cm, starType) ==
    /\ cm.currentPattern \in Patterns
    /\ starType \in stars(cm.currentPattern)
    /\ starType \notin cm.collectedStars
    /\ Cardinality(cm.collectedStars \cup {starType})
           = Cardinality(stars(cm.currentPattern))

\* collectStar without the test for a star already collected.
collectStar_noHasCheck(cm, starType, nextPattern) ==
    IF starType \notin stars(cm.currentPattern) THEN [cm |-> cm, ret |-> FALSE]
    ELSE LET added == [cm EXCEPT !.collectedStars = @ \cup {starType}]
         IN  IF Cardinality(added.collectedStars) = Cardinality(stars(cm.currentPattern))
             THEN [cm |-> completeConstellation(added, nextPattern), ret |-> TRUE]
             ELSE [cm |-> added, ret |-> FALSE]

\* collectStar(starType): the manager afterwards and the value returned.
collectStar(cm, starType, nextPattern) ==
    IF cm.currentPattern \notin Patterns THEN [cm |-> cm, ret |-> FALSE]
    ELSE IF starType \notin stars(cm.currentPattern) THEN [cm |-> cm, ret |-> FALSE]
    ELSE IF starType \in cm.collectedStars THEN [cm |-> cm, ret |-> FALSE]
    ELSE LET added == [cm EXCEPT !.collectedStars = @ \cup {starType}]
         IN  IF Cardinality(added.collectedStars) = Cardinality(stars(cm.currentPattern))
             THEN [cm |-> completeConstellation(added, nextPattern), ret |-> TRUE]
             ELSE [cm |-> added, ret |-> FALSE]

\* update(deltaTime), deltaTime in seconds.
constellationUpdate(cm, deltaTime) ==
    IF cm.morphingActive /\ cm.morphTimer > 0
    THEN LET left == cm.morphTimer - deltaTime * 1000
         IN  [cm EXCEPT !.morphTimer = left,
                        !.morphingActive = IF left <= 0 THEN FALSE ELSE @]
    ELSE cm

\* reset()
constellationReset(cm) ==
    setPattern([cm EXCEPT !.collectedStars = {},
                          !.completedPatterns = <<>>,
                          !.recentPatterns = <<>>,
                          !.morphingActive = FALSE,
                          !.morphTimer = 0],
               "triangle")

\* saveState()
saveState(cm) ==
    [targetPattern |-> cm.targetPattern,
     collectedStars |-> cm.collectedStars,
     completedPatterns |-> cm.completedPatterns,
     recentPatterns |-> cm.recentPatterns]

\* loadState without the call of setPattern.
loadState_keepsPattern(cm, state) ==
    [cm EXCEPT !.targetPattern = state.targetPattern,
               !.collectedStars = state.collectedStars,
               !.completedPatterns = state.completedPatterns,
               !.recentPatterns = state.recentPatterns]

\* loadState(state): setPattern empties the stars, which are then restored.
loadState(cm, state) ==
    LET loaded == setPattern([cm EXCEPT !.targetPattern = state.targetPattern,
                                        !.collectedStars = state.collectedStars,
                                        !.completedPatterns = state.completedPatterns,
                                        !.recentPatterns = state.recentPatterns],
                             state.targetPattern)
    IN  [loaded EXCEPT !.collectedStars = @ \cup state.collectedStars]

(***************************************************************************)
(* LevelManager (src/src/systems/level-manager.js).  A manager lm is        *)
(* [currentLevel, levelData, proceduralSeed, stored], stored being the item *)
(* 'serpentis_progress' of localStorage.  A descriptor is [levelNumber,     *)
(* generated, difficulty, theme, gravityWells, enemies,                     *)
(* constellationPattern, collectibleCount, timeLimit, features]; the name   *)
(* and the description, which are texts, are left out (the random number    *)
(* the description takes is drawn all the same).  The numbers made from     *)
(* rng() are kept exactly, as numerators: positions and radii over          *)
(* Modulus, strengths over 100 * Modulus, intensities over 10 * Modulus.    *)
(* A template has no specialFeatures; its features are NoFeatures here.     *)
(***************************************************************************)
\* The modulus of the generator createSeededRandom makes: rng() returns
\* currentSeed / 233280.
Modulus == 233280

\* The decimal digits of n >= 0 as char codes, levelNumber.toString().
RECURSIVE toStringCodes(_)
toStringCodes(n) ==
    IF n < 10 THEN <<48 + n>> ELSE Append(toStringCodes(n \div 10), 48 + (n % 10))

\* hashCode(str) from the hash reached so far: hash * 31 + char, made a
\* 32-bit integer at each step, and Math.abs at the end.  For the strings of
\* one to three digits loaded here the sum stays below 2^31, where the
\* 32-bit conversion changes nothing.
RECURSIVE hashFrom(_, _, _)
hashFrom(hash, codes, i) ==
    IF i > Len(codes) THEN Abs(hash)
    ELSE hashFrom(((hash * 32) - hash) + codes[i], codes, i + 1)

hashCode(codes) == hashFrom(0, codes, 1)

\* One call of the function createSeededRandom returns:
\* currentSeed = (currentSeed * 9301 + 49297) % 233280, computed on the
\* residue of currentSeed in two steps (9301 = 93 * 100 + 1), which is the
\* same number and stays within the integers of the checker.
Lcg(currentSeed) ==
    LET r == currentSeed % Modulus
    IN  ((((r * 93) % Modulus) * 100 + r) + 49297) % Modulus

\* a * b modulo Modulus for residues a and b, in two steps.
MulMod(a, b) == (((a * (b \div 1000)) % Modulus) * 1000 + a * (b % 1000)) % Modulus

\* Two maps x -> (p.a * x + p.c) % Modulus, p applied first and then q.
Compose(p, q) == [a |-> MulMod(q.a, p.a), c |-> (MulMod(q.a, p.c) + q.c) % Modulus]

\* k calls of rng in a row, k >= 1, as one such map: k \div 2 calls twice
\* over, and one call more when k is odd.
RECURSIVE Calls(_)
Calls(k) ==
    LET one == [a |-> 9301, c |-> 49297]
    IN  IF k = 1 THEN one
        ELSE LET half == Calls(k \div 2)
                 twice == Compose(half, half)
             IN  IF k % 2 = 1 THEN Compose(twice, one) ELSE twice

\* currentSeed after the k-th call of rng.
Draw(seed, k) ==
    IF k = 0 THEN seed
    ELSE (MulMod(Calls(k).a, seed % Modulus) + Calls(k).c) % Modulus

\* Math.floor(rng() * n) for the k-th call of rng.
FloorDraw(seed, k, n) == (Draw(seed, k) * n) \div Modulus

calculateDifficulty(levelNumber) ==
    IF levelNumber <= 3 THEN "easy"
    ELSE IF levelNumber <= 8 THEN "medium"
    ELSE IF levelNumber <= 15 THEN "hard"
    ELSE "extreme"

getMaxWellsForDifficulty(difficulty) ==
    CASE difficulty = "easy" -> 2 [] difficulty = "medium" -> 3
      [] difficulty = "hard" -> 4 [] OTHER -> 6

getMaxEnemiesForDifficulty(difficulty) ==
    CASE difficulty = "easy" -> 1 [] difficulty = "medium" -> 2
      [] difficulty = "hard" -> 4 [] OTHER -> 6

getAvailableBehaviors(difficulty) ==
    CASE difficulty = "easy" -> <<"collector">>
      [] difficulty = "medium" -> <<"collector", "territorial">>
      [] difficulty = "hard" -> <<"collector", "hunter", "territorial", "mimic">>
      [] OTHER -> <<"collector", "hunter", "territorial", "mimic", "opportunist">>

\* difficultyMultiplier of generateGravityWells, in tenths.
WellMultiplier(difficulty) ==
    CASE difficulty = "easy" -> 5 [] difficulty = "medium" -> 8
      [] difficulty = "hard" -> 10 [] OTHER -> 13

Themes == <<"space", "nebula", "asteroid", "blackhole", "plasma", "crystal">>
WellTypeNames == <<"attract", "repel", "vortex", "pulse">>
LevelPatterns == <<"triangle", "cross", "diamond", "spiral">>
WeatherTypes == <<"solar_wind", "cosmic_storm", "gravity_waves">>

\* generateGravityWells: the calls of rng from the k-th on.
generateGravityWells(seed, k, difficulty) ==
    LET wellCount == FloorDraw(seed, k, getMaxWellsForDifficulty(difficulty)) + 1
    IN  [i \in 1..wellCount |->
            LET b == k + 5 * (i - 1)
            IN  [type |-> WellTypeNames[FloorDraw(seed, b + 1, 4) + 1],
                 strength |-> (3 * Modulus + 8 * Draw(seed, b + 2)) * WellMultiplier(difficulty),
                 radius |-> 40 * Modulus + 60 * Draw(seed, b + 3),
                 x |-> 10 * Modulus + 30 * Draw(seed, b + 4),
                 y |-> 8 * Modulus + 24 * Draw(seed, b + 5)]]

\* generateEnemies: the calls of rng from the k-th on.
generateEnemies(seed, k, difficulty) ==
    LET enemyCount == FloorDraw(seed, k, getMaxEnemiesForDifficulty(difficulty))
                          + (IF difficulty = "easy" THEN 0 ELSE 1)
        availableBehaviors == getAvailableBehaviors(difficulty)
    IN  [j \in 1..enemyCount |->
            LET b == k + 3 * (j - 1)
            IN  [x |-> 5 * Modulus + 40 * Draw(seed, b + 2),
                 y |-> 5 * Modulus + 30 * Draw(seed, b + 3),
                 behavior |-> availableBehaviors[
                                  FloorDraw(seed, b + 1, Len(availableBehaviors)) + 1],
                 difficulty |-> difficulty]]

selectConstellationPattern(levelNumber, seed, k) ==
    LevelPatterns[FloorDraw(seed, k, Min(4, levelNumber \div 2 + 1)) + 1]

calculateCollectibleCount(levelNumber, difficulty) ==
    5 + (CASE difficulty = "easy" -> 0 [] difficulty = "medium" -> 2
           [] difficulty = "hard" -> 4 [] OTHER -> 6)
      + levelNumber \div 3

\* Math.floor(120 * 1.2) = 144, Math.floor(120 * 1.0) = 120 and
\* Math.floor(120 * 0.8) = 96.
calculateTimeLimit(levelNumber, difficulty) ==
    IF difficulty = "easy" THEN 0
    ELSE (CASE difficulty = "medium" -> 144 [] difficulty = "hard" -> 120 [] OTHER -> 96)
             + (levelNumber \div 5) * 15

NoFeatures == [portals |-> FALSE, enhanced |-> FALSE, weather |-> "none", intensity |-> 0]

\* generateSpecialFeatures: rng is called for a feature only when the level
\* is high enough for it; k calls were made before.
generateSpecialFeatures(levelNumber, seed, k) ==
    LET k1 == IF levelNumber >= 10 THEN k + 1 ELSE k
        k2 == IF levelNumber >= 5 THEN k1 + 1 ELSE k1
        stormy == levelNumber >= 8 /\ 10 * Draw(seed, k2 + 1) < 4 * Modulus
    IN  [portals |-> levelNumber >= 10 /\ 10 * Draw(seed, k1) < 3 * Modulus,
         enhanced |-> levelNumber >= 5 /\ 2 * Draw(seed, k2) < Modulus,
         weather |-> IF stormy THEN WeatherTypes[FloorDraw(seed, k2 + 2, 3) + 1] ELSE "none",
         intensity |-> IF stormy THEN 3 * Modulus + 4 * Draw(seed, k2 + 3) ELSE 0]

\* The descriptor generateProceduralLevel makes with a generator started at
\* seed: the theme takes the first call of rng, the description the second,
\* the wells the third and five for each well, and so on.
Generated(levelNumber, seed) ==
    LET difficulty == calculateDifficulty(levelNumber)
        gravityWells == generateGravityWells(seed, 3, difficulty)
        k == 3 + 5 * Len(gravityWells)
        enemies == generateEnemies(seed, k + 1, difficulty)
        k2 == k + 1 + 3 * Len(enemies)
    IN  [levelNumber |-> levelNumber,
         generated |-> TRUE,
         difficulty |-> difficulty,
         theme |-> Themes[FloorDraw(seed, 1, 6) + 1],
         gravityWells |-> gravityWells,
         enemies |-> enemies,
         constellationPattern |-> selectConstellationPattern(levelNumber, seed, k2 + 1),
         collectibleCount |-> calculateCollectibleCount(levelNumber, difficulty),
         timeLimit |-> calculateTimeLimit(levelNumber, difficulty),
         features |-> generateSpecialFeatures(levelNumber, seed, k2 + 1)]

\* Mutant of generateProceduralLevel: the generator is started at the seed
\* the manager holds, which is left as it is.
generateProceduralLevel_keepsSeed(lm, levelNumber) ==
    [lm EXCEPT !.levelData = Generated(levelNumber, lm.proceduralSeed)]

\* generateProceduralLevel(levelNumber): the seed of the manager is set to
\* the hash of the level number before the generator is made from it.
generateProceduralLevel(lm, levelNumber) ==
    LET seed == hashCode(toStringCodes(levelNumber))
    IN  [lm EXCEPT !.proceduralSeed = seed, !.levelData = Generated(levelNumber, seed)]

TemplateWell(x, y, strength100, radius, type) ==
    [type |-> type, strength |-> strength100 * Modulus, radius |-> radius * Modulus,
     x |-> x * Modulus, y |-> y * Modulus]

TemplateEnemy(x, y, behavior) == [x |-> x * Modulus, y |-> y * Modulus, behavior |-> behavior]

Template(gravityWells, enemies, constellationPattern, collectibleCount, timeLimit,
         difficulty, theme) ==
    [gravityWells |-> gravityWells, enemies |-> enemies,
     constellationPattern |-> constellationPattern, collectibleCount |-> collectibleCount,
     timeLimit |-> timeLimit, difficulty |-> difficulty, theme |-> theme]

TemplateNumbers == 1..6

\* createLevelTemplates()
levelTemplates(n) ==
    CASE n = 1 -> Template(<<>>, <<>>, "triangle", 5, 0, "easy", "space")
      [] n = 2 -> Template(<<TemplateWell(20, 15, 80, 80, "attract")>>, <<>>,
                           "triangle", 6, 0, "easy", "space")
      [] n = 3 -> Template(<<>>, <<TemplateEnemy(30, 10, "collector")>>,
                           "cross", 7, 0, "easy", "space")
      [] n = 4 -> Template(<<TemplateWell(15, 10, 60, 60, "attract"),
                             TemplateWell(35, 25, 80, 70, "repel")>>,
                           <<TemplateEnemy(40, 15, "territorial")>>,
                           "cross", 8, 120, "medium", "space")
      [] n = 5 -> Template(<<TemplateWell(25, 20, 120, 100, "vortex")>>,
                           <<TemplateEnemy(10, 5, "hunter"), TemplateEnemy(40, 35, "mimic")>>,
                           "diamond", 10, 150, "medium", "nebula")
      [] n = 6 -> Template(<<TemplateWell(12, 12, 50, 50, "pulse"),
                             TemplateWell(38, 28, 50, 50, "pulse")>>,
                           <<TemplateEnemy(8, 8, "hunter"), TemplateEnemy(42, 32, "hunter"),
                             TemplateEnemy(25, 20, "opportunist")>>,
                           "spiral", 12, 180, "hard", "asteroid")

\* processLevelTemplate(template), this.currentLevel being levelNumber.
processLevelTemplate(template, levelNumber) ==
    [levelNumber |-> levelNumber,
     generated |-> FALSE,
     difficulty |-> template.difficulty,
     theme |-> template.theme,
     gravityWells |-> template.gravityWells,
     enemies |-> template.enemies,
     constellationPattern |-> template.constellationPattern,
     collectibleCount |-> template.collectibleCount,
     timeLimit |-> template.timeLimit,
     features |-> NoFeatures]

\* No descriptor: levelData is null.
NoLevel == <<>>

\* No item 'serpentis_progress' in localStorage.
NoItem == [kind |-> "none", currentLevel |-> 0, proceduralSeed |-> 0]

\* new LevelManager(), Date.now() being now.
NewLevelManager(now) ==
    [currentLevel |-> 1, levelData |-> NoLevel, proceduralSeed |-> now, stored |-> NoItem]

loadLevel(lm, levelNumber) ==
    LET lm1 == [lm EXCEPT !.currentLevel = levelNumber]
    IN  IF levelNumber \in TemplateNumbers
        THEN [lm1 EXCEPT !.levelData =
                 processLevelTemplate(levelTemplates(levelNumber), levelNumber)]
        ELSE generateProceduralLevel(lm1, levelNumber)

\* saveProgress(): the item is the JSON text of an object with the level and
\* the seed (unlockedLevels and completedLevels, which loadProgress does not
\* read, are left out).
saveProgress(lm) ==
    [lm EXCEPT !.stored = [kind |-> "object", currentLevel |-> lm.currentLevel,
                           proceduralSeed |-> lm.proceduralSeed]]

\* An item is a text JSON.parse throws on ("garbage"), the text of null
\* ("null"), on which the read of currentLevel throws, or the text of an
\* object with numbers for the two fields, 0 standing for a number that is
\* missing or zero.
Throws(item) == item.kind \in {"garbage", "null"}

\* loadProgress(), Date.now() being now: an exception is caught and logged,
\* and nothing else is done about it.
loadProgress(lm, now) ==
    IF lm.stored.kind = "none" \/ Throws(lm.stored) THEN lm
    ELSE [lm EXCEPT !.currentLevel = IF lm.stored.currentLevel # 0
                                     THEN lm.stored.currentLevel ELSE 1,
                    !.proceduralSeed = IF lm.stored.proceduralSeed # 0
                                       THEN lm.stored.proceduralSeed ELSE now]

resetProgress(lm, now) ==
    [lm EXCEPT !.stored = NoItem, !.currentLevel = 1, !.proceduralSeed = now]

\* The time of the construction, Date.now() in ms on a small clock.
LevelsIdle == levels = NewLevelManager(1000)

\* new SerpentisNexus(): the menu is shown, no frame of the game loop is
\* requested.
AppIdle == app = [currentMode |-> "menu", screen |-> "menu", frames |-> 0]

\* new EnemyAI(snake, gameEngine), as far as its state is read again.
NewEnemyAI ==
    [pathfindingCooldown |-> 0, decisionCooldown |-> 0, stuckCounter |-> 0,
     lastPosition |-> [x |-> 0, y |-> 0]]

\* The AI of the specifications that have none.
AiIdle == enemyAI = NewEnemyAI

ConstellationIdle == constellation = NewConstellationManager

EngineIdle ==
    engine = [gameState |-> "stopped", lives |-> 3, level |-> 1, loaded |-> 1,
              enemies |-> <<>>, collectibles |-> <<>>, gravityWells |-> <<>>]

HashIdle ==
    /\ cells = <<>>
    /\ objects = <<>>
    /\ result = <<>>

InitSnake ==
    /\ \E x \in 0..MaxX, y \in BoxRows : snake = NewSnake(x, y, "player")
    /\ timers = <<>>
    /\ call = NoCall
    /\ HashIdle
    /\ EngineIdle
    /\ ConstellationIdle
    /\ WellIdle
    /\ LevelsIdle
    /\ AppIdle
    /\ AiIdle

SetDirection(d) ==
    /\ snake' = setDirection(snake, d)
    /\ call' = Called("setDirection", d, 0, FALSE)
    /\ UNCHANGED <<enemyAI, levels, app, well, constellation, timers, cells, objects, result, engine>>

Grow(kind, limit) ==
    /\ Len(snake.segments) < limit
    /\ snake' = grow(snake, kind)
    /\ call' = Called("grow", kind, 0, FALSE)
    /\ UNCHANGED <<enemyAI, levels, app, well, constellation, timers, cells, objects, result, engine>>

ApplyForce(fx, fy) ==
    /\ Abs(snake.gravitationalForce.x + fx) + Abs(snake.gravitationalForce.y + fy) <= MaxForce
    /\ snake' = applyGravitationalForce(snake, fx, fy)
    /\ call' = Called("applyGravitationalForce", "none", 0, FALSE)
    /\ UNCHANGED <<enemyAI, levels, app, well, constellation, timers, cells, objects, result, engine>>

Update(dtMs) ==
    /\ LET h == getHead(update(snake, dtMs)) IN InBox(h.x, h.y)
    /\ snake' = update(snake, dtMs)
    /\ call' = Called("update", "none", dtMs, FALSE)
    /\ UNCHANGED <<enemyAI, levels, app, well, constellation, timers, cells, objects, result, engine>>

ActivateBoost ==
    /\ snake' = activateBoost(snake)
    /\ IF snake' # snake
       THEN /\ Len(timers) < MaxTimers
            /\ timers' = Append(timers, BoostDelay(CountType(snake.segments, "booster")))
       ELSE timers' = timers
    /\ call' = Called("activateBoost", "none", 0, FALSE)
    /\ UNCHANGED <<enemyAI, levels, app, well, constellation, cells, objects, result, engine>>

BoostTimeout(i) ==
    /\ i \in DOMAIN timers
    /\ snake' = boostTimeout(snake)
    /\ timers' = RemoveAt(timers, i)
    /\ call' = Called("boostTimeout", "none", 0, FALSE)
    /\ UNCHANGED <<enemyAI, levels, app, well, constellation, cells, objects, result, engine>>

NextSnake ==
    \/ \E d \in DirInputs : SetDirection(d)
    \/ \E kind \in {"normal", "booster"} : Grow(kind, MaxSegments)
    \/ \E fx \in ForceInputs, fy \in ForceInputs : ApplyForce(fx, fy)
    \/ \E dtMs \in {1000} : Update(dtMs)
    \/ ActivateBoost
    \/ \E i \in 1..MaxTimers : BoostTimeout(i)

SpecSnake == InitSnake /\ [][NextSnake]_vars

(***************************************************************************)
(* SpecDamage: one Snake that grows, is hit, is reset and advances.        *)
(***************************************************************************)
TakeDamage(random) ==
    /\ snake' = takeDamage(snake, random).snake
    /\ call' = Called("takeDamage", "none", random, takeDamage(snake, random).ret)
    /\ UNCHANGED <<enemyAI, levels, app, well, constellation, timers, cells, objects, result, engine>>

Reset(x, y) ==
    /\ snake' = reset(snake, x, y)
    /\ call' = Called("reset", "none", 0, FALSE)
    /\ UNCHANGED <<enemyAI, levels, app, well, constellation, timers, cells, objects, result, engine>>

NextDamage ==
    \/ \E kind \in SegmentKinds : Grow(kind, MaxSegments + 2)
    \/ \E random \in RandomTenths : TakeDamage(random)
    \/ \E x \in 0..MaxX, y \in BoxRows : Reset(x, y)
    \/ \E dtMs \in DeltaTimes : Update(dtMs)

SpecDamage == InitSnake /\ [][NextDamage]_vars

(***************************************************************************)
(* SpecBoost: one Snake and the clock.  A pending setTimeout of            *)
(* activateBoost is [left, boosters]: the time left until its callback     *)
(* runs, in ms, and the number of booster segments it was started with.    *)
(* Time passes in steps of 200 ms, with or without a call of update, and   *)
(* never past the moment a callback is due.                                *)
(***************************************************************************)
MaxBoosts == 2

BoostSteps == {200}

\* The speed activateBoost sets for n booster segments, in halves.
BoostSpeed(s, n) == (s.baseSpeed * (2 + n)) \div 2

TimePasses(dtMs) ==
    /\ \A i \in DOMAIN timers : timers[i].left >= dtMs
    /\ timers' = [i \in DOMAIN timers |-> [timers[i] EXCEPT !.left = @ - dtMs]]

BoostActivate ==
    /\ snake' = activateBoost(snake)
    /\ IF snake' # snake
       THEN /\ Len(timers) < MaxBoosts
            /\ timers' = Append(timers,
                    [left |-> BoostDelay(CountType(snake.segments, "booster")),
                     boosters |-> CountType(snake.segments, "booster")])
       ELSE timers' = timers
    /\ call' = Called("activateBoost", "none", 0, FALSE)
    /\ UNCHANGED <<enemyAI, levels, app, well, constellation, cells, objects, result, engine>>

\* The callback of a setTimeout runs when its delay has passed.
BoostExpire(i) ==
    /\ i \in DOMAIN timers
    /\ timers[i].left = 0
    /\ snake' = boostTimeout(snake)
    /\ timers' = RemoveAt(timers, i)
    /\ call' = Called("boostTimeout", "none", 0, FALSE)
    /\ UNCHANGED <<enemyAI, levels, app, well, constellation, cells, objects, result, engine>>

\* dtMs pass and update(dtMs / 1000) is called.
BoostUpdate(dtMs) ==
    /\ LET h == getHead(update(snake, dtMs)) IN InBox(h.x, h.y)
    /\ TimePasses(dtMs)
    /\ snake' = update(snake, dtMs)
    /\ call' = Called("update", "none", dtMs, FALSE)
    /\ UNCHANGED <<enemyAI, levels, app, well, constellation, cells, objects, result, engine>>

\* dtMs pass with no call.
BoostElapse(dtMs) ==
    /\ timers # <<>>
    /\ TimePasses(dtMs)
    /\ call' = Called("elapse", "none", dtMs, FALSE)
    /\ UNCHANGED <<snake, enemyAI, levels, app, well, constellation, cells, objects, result, engine>>

BoostReset(x, y) ==
    /\ snake' = reset(snake, x, y)
    /\ call' = Called("reset", "none", 0, FALSE)
    /\ UNCHANGED <<enemyAI, levels, app, well, constellation, timers, cells, objects, result, engine>>

NextBoost ==
    \/ Grow("booster", MaxSegments)
    \/ BoostActivate
    \/ \E i \in 1..MaxBoosts : BoostExpire(i)
    \/ \E dtMs \in BoostSteps : BoostUpdate(dtMs)
    \/ \E dtMs \in BoostSteps : BoostElapse(dtMs)
    \/ \E x \in {0}, y \in BoxRows : BoostReset(x, y)

SpecBoost == InitSnake /\ [][NextBoost]_vars

(***************************************************************************)
(* SpatialHash (src/src/systems/spatial-hash.js).  A cell key "cx,cy" is   *)
(* the pair <<cx, cy>>; a Set of objects is the sequence of its members in *)
(* insertion order; an object is a number; a filter is a set of objects.   *)
(* Coordinates, sizes and distances are in halves.  lastUpdate (a          *)
(* timestamp) and the statistics are left out.                             *)
(***************************************************************************)
CellSize == 20
\* The cell size in halves.
CellHalves == 2 * CellSize

getCellKey(x, y) == <<x \div CellHalves, y \div CellHalves>>

\* The keys in the order the two nested loops push them.
getObjectCells(x, y, width, height) ==
    LET startCellX == x \div CellHalves
        endCellX == (x + width - 2) \div CellHalves
        startCellY == y \div CellHalves
        endCellY == (y + height - 2) \div CellHalves
        nx == IF endCellX < startCellX THEN 0 ELSE endCellX - startCellX + 1
        ny == IF endCellY < startCellY THEN 0 ELSE endCellY - startCellY + 1
    IN  [k \in 1..(nx * ny) |->
            <<startCellX + ((k - 1) \div ny), startCellY + ((k - 1) % ny)>>]

\* Set.add and Set.delete on an insertion-ordered set.
SetAdd(set, o) == IF o \in Range(set) THEN set ELSE Append(set, o)
SetDelete(set, o) == SelectSeq(set, LAMBDA e : e # o)

\* The loop of remove and update that takes an object out of the cells whose
\* keys are given and deletes the cells left empty.
DeleteFromCells(cs, keys, o) ==
    LET emptied == {k \in DOMAIN cs : k \in Range(keys) /\ SetDelete(cs[k], o) = <<>>}
    IN  [k \in DOMAIN cs \ emptied |->
            IF k \in Range(keys) THEN SetDelete(cs[k], o) ELSE cs[k]]

\* The loop of add and update that puts an object into the cells whose keys
\* are given, creating the cells that do not exist.
AddToCells(cs, keys, o) ==
    [k \in DOMAIN cs \cup Range(keys) |->
        IF k \in Range(keys)
        THEN SetAdd(IF k \in DOMAIN cs THEN cs[k] ELSE <<>>, o)
        ELSE cs[k]]

\* remove(object): the hash afterwards and the value returned.
remove(h, o) ==
    IF o \notin DOMAIN h.objects THEN [hash |-> h, ret |-> FALSE]
    ELSE [hash |-> [cells |-> DeleteFromCells(h.cells, h.objects[o].cellKeys, o),
                    objects |-> [p \in DOMAIN h.objects \ {o} |-> h.objects[p]]],
          ret |-> TRUE]

ObjectData(cellKeys, x, y, width, height) ==
    [cellKeys |-> cellKeys, x |-> x, y |-> y, width |-> width, height |-> height]

\* Map.set on the objects map.
SetObject(objs, o, data) ==
    [p \in DOMAIN objs \cup {o} |-> IF p = o THEN data ELSE objs[p]]

add(h, o, x, y, width, height) ==
    LET h1 == remove(h, o).hash
        cellKeys == getObjectCells(x, y, width, height)
    IN  [cells |-> AddToCells(h1.cells, cellKeys, o),
         objects |-> SetObject(h1.objects, o, ObjectData(cellKeys, x, y, width, height))]

\* arraysEqual: both arrays sorted, then compared element by element; the
\* sort puts equal keys at equal places, so this is equality as bags.
arraysEqual(arr1, arr2) ==
    /\ Len(arr1) = Len(arr2)
    /\ \A k \in Range(arr1) \cup Range(arr2) :
           Cardinality({i \in DOMAIN arr1 : arr1[i] = k})
               = Cardinality({i \in DOMAIN arr2 : arr2[i] = k})

\* update(object, newX, newY, newWidth, newHeight).
hashUpdate(h, o, newX, newY, newWidth, newHeight) ==
    IF o \notin DOMAIN h.objects THEN add(h, o, newX, newY, newWidth, newHeight)
    ELSE LET objectData == h.objects[o]
             newCellKeys == getObjectCells(newX, newY, newWidth, newHeight)
             oldCellKeys == objectData.cellKeys
         IN  IF /\ objectData.x = newX /\ objectData.y = newY
                /\ objectData.width = newWidth /\ objectData.height = newHeight
             THEN h
             ELSE IF ~arraysEqual(oldCellKeys, newCellKeys)
             THEN [cells |-> AddToCells(DeleteFromCells(h.cells, oldCellKeys, o), newCellKeys, o),
                   objects |-> SetObject(h.objects, o,
                                   ObjectData(newCellKeys, newX, newY, newWidth, newHeight))]
             ELSE [cells |-> h.cells,
                   objects |-> SetObject(h.objects, o,
                                   ObjectData(oldCellKeys, newX, newY, newWidth, newHeight))]

clear(h) == [cells |-> <<>>, objects |-> <<>>]

\* calculateDistance squared: distances are compared through their squares.
calculateDistance2(x1, y1, x2, y2) == (x2 - x1) * (x2 - x1) + (y2 - y1) * (y2 - y1)

rectsOverlap(x1, y1, w1, h1, x2, y2, w2, h2) ==
    ~(x1 >= x2 + w2 \/ x2 >= x1 + w1 \/ y1 >= y2 + h2 \/ y2 >= y1 + h1)

\* new Set filled from a sequence of values: the first occurrence of each.
RECURSIVE ToSet(_)
ToSet(seq) ==
    IF seq = <<>> THEN <<>>
    ELSE SetAdd(ToSet(SubSeq(seq, 1, Len(seq) - 1)), seq[Len(seq)])

\* The objects of the cells whose keys are given, cell after cell.
RECURSIVE CellObjects(_, _)
CellObjects(cs, keys) ==
    IF keys = <<>> THEN <<>>
    ELSE (IF Head(keys) \in DOMAIN cs THEN cs[Head(keys)] ELSE <<>>)
             \o CellObjects(cs, Tail(keys))

\* queryPoint(x, y, radius): the array returned.
queryPoint(h, x, y, radius) ==
    IF radius = 0
    THEN (IF getCellKey(x, y) \in DOMAIN h.cells THEN h.cells[getCellKey(x, y)] ELSE <<>>)
    ELSE LET cellKeys == getObjectCells(x - radius, y - radius, radius * 2, radius * 2)
             inRange(obj) ==
                 /\ obj \in DOMAIN h.objects
                 /\ calculateDistance2(x, y, h.objects[obj].x, h.objects[obj].y)
                        <= radius * radius
         IN  ToSet(SelectSeq(CellObjects(h.cells, cellKeys), inRange))

pointInRect(px, py, rx, ry, rw, rh) ==
    px >= rx /\ px < rx + rw /\ py >= ry /\ py < ry + rh

\* The value raycast returns: null is hit = FALSE.
NoHit == [hit |-> FALSE, object |-> 0, x |-> 0, y |-> 0, distance |-> 0]

\* The first object of the array objs that the filter accepts and whose
\* bounding box contains (x, y); 0 when there is none.
RECURSIVE RayObject(_, _, _, _, _)
RayObject(h, objs, x, y, filter) ==
    IF objs = <<>> THEN 0
    ELSE LET obj == Head(objs)
         IN  IF /\ obj \in filter
                /\ obj \in DOMAIN h.objects
                /\ pointInRect(x, y, h.objects[obj].x, h.objects[obj].y,
                               h.objects[obj].width, h.objects[obj].height)
             THEN obj
             ELSE RayObject(h, Tail(objs), x, y, filter)

\* The loop of raycast from step i on; stepSize is cellSize / 2.
RECURSIVE RayLoop(_, _, _, _, _, _, _, _)
RayLoop(h, startX, startY, dirX, dirY, steps, filter, i) ==
    IF i > steps THEN NoHit
    ELSE LET stepSize == CellHalves \div 2
             x == startX + dirX * i * stepSize
             y == startY + dirY * i * stepSize
             obj == RayObject(h, queryPoint(h, x, y, 0), x, y, filter)
         IN  IF obj # 0
             THEN [hit |-> TRUE, object |-> obj, x |-> x, y |-> y, distance |-> i * stepSize]
             ELSE RayLoop(h, startX, startY, dirX, dirY, steps, filter, i + 1)

\* raycast(startX, startY, dirX, dirY, maxDistance, filter), for a positive
\* maxDistance: steps is Math.ceil(maxDistance / stepSize).
raycast(h, startX, startY, dirX, dirY, maxDistance, filter) ==
    LET stepSize == CellHalves \div 2
        steps == (maxDistance + stepSize - 1) \div stepSize
    IN  RayLoop(h, startX, startY, dirX, dirY, steps, filter, 1)

\* A candidate of queryNearest: { object, distance }, the distance squared.
Candidate(obj, distance2) == [object |-> obj, distance2 |-> distance2]

\* The candidates one pass of the loop of queryNearest pushes.
NearestPass(h, x, y, maxDistance, filter, searchRadius) ==
    LET objectsInRange == queryPoint(h, x, y, searchRadius)
        passes(obj) ==
            /\ obj \in filter
            /\ obj \in DOMAIN h.objects
            /\ calculateDistance2(x, y, h.objects[obj].x, h.objects[obj].y)
                   <= maxDistance * maxDistance
        kept == SelectSeq(objectsInRange, passes)
    IN  [i \in DOMAIN kept |->
            Candidate(kept[i],
                calculateDistance2(x, y, h.objects[kept[i]].x, h.objects[kept[i]].y))]

\* The while loop of queryNearest from a search radius on.
RECURSIVE NearestLoop(_, _, _, _, _, _, _, _)
NearestLoop(h, x, y, count, maxDistance, filter, searchRadius, candidates) ==
    IF Len(candidates) < count /\ searchRadius <= maxDistance
    THEN NearestLoop(h, x, y, count, maxDistance, filter, searchRadius * 2,
             candidates \o NearestPass(h, x, y, maxDistance, filter, searchRadius))
    ELSE candidates

\* Array.prototype.sort by distance: stable, so a candidate goes after the
\* candidates at the same distance that were pushed before it.
RECURSIVE SortByDistance(_)
SortByDistance(cands) ==
    IF cands = <<>> THEN <<>>
    ELSE LET last == cands[Len(cands)]
             sorted == SortByDistance(SubSeq(cands, 1, Len(cands) - 1))
             before == SelectSeq(sorted, LAMBDA c : c.distance2 <= last.distance2)
             after == SelectSeq(sorted, LAMBDA c : c.distance2 > last.distance2)
         IN  before \o <<last>> \o after

\* queryNearest(x, y, count, maxDistance, filter) with a finite maxDistance
\* and the filter the set of objects the predicate accepts.
queryNearest(h, x, y, count, maxDistance, filter) ==
    LET candidates == NearestLoop(h, x, y, count, maxDistance, filter, CellHalves, <<>>)
        sorted == SortByDistance(candidates)
    IN  [i \in 1..Min(Len(sorted), count) |-> sorted[i].object]

(***************************************************************************)
(* SpecHash: one SpatialHash under every order of calls.  The positions    *)
(* are (-20, 0) on a cell border, (19.5, 0) half a unit before one and     *)
(* (5, 20); the widths are 0.5, 1 and 21; the height is 1.  Points are     *)
(* queried at (0, 0) and at (5, 0.5).                                      *)
(***************************************************************************)
MaxObjects == 2
MaxCount == 2

Objs == 1..MaxObjects
Positions == {<<-40, 0>>, <<39, 0>>, <<10, 40>>}
Widths == {1, 2, CellHalves + 2}
Heights == {2}
Radii == {0, CellHalves}
QueryPoints == {<<0, 0>>, <<10, 1>>}
MaxDistances == {30, 200}

\* The filter a call passes: 0 is no filter, o the predicate true of o only.
Filter(i) == IF i = 0 THEN Objs ELSE {i}

Hash == [cells |-> cells, objects |-> objects]

HashCalled(op, args, ret) ==
    [op |-> op, arg |-> "none", num |-> 0, ret |-> ret, args |-> args]

SnakeIdle ==
    /\ snake = NewSnake(0, 0, "player")
    /\ timers = <<>>

InitHash ==
    /\ SnakeIdle
    /\ EngineIdle
    /\ ConstellationIdle
    /\ WellIdle
    /\ call = NoCall
    /\ cells = <<>>
    /\ objects = <<>>
    /\ result = <<>>
    /\ LevelsIdle
    /\ AppIdle
    /\ AiIdle

Add(o, x, y, width, height) ==
    LET h == add(Hash, o, x, y, width, height)
    IN  /\ cells' = h.cells
        /\ objects' = h.objects
        /\ result' = <<>>
        /\ call' = HashCalled("add", <<o, x, y, width, height>>, FALSE)
        /\ UNCHANGED <<enemyAI, levels, app, well, constellation, snake, timers, engine>>

Remove(o) ==
    LET r == remove(Hash, o)
    IN  /\ cells' = r.hash.cells
        /\ objects' = r.hash.objects
        /\ result' = <<>>
        /\ call' = HashCalled("remove", <<o>>, r.ret)
        /\ UNCHANGED <<enemyAI, levels, app, well, constellation, snake, timers, engine>>

HashUpdate(o, x, y, width, height) ==
    LET h == hashUpdate(Hash, o, x, y, width, height)
    IN  /\ cells' = h.cells
        /\ objects' = h.objects
        /\ result' = <<>>
        /\ call' = HashCalled("update", <<o, x, y, width, height>>, FALSE)
        /\ UNCHANGED <<enemyAI, levels, app, well, constellation, snake, timers, engine>>

Clear ==
    /\ cells' = clear(Hash).cells
    /\ objects' = clear(Hash).objects
    /\ result' = <<>>
    /\ call' = HashCalled("clear", <<>>, FALSE)
    /\ UNCHANGED <<enemyAI, levels, app, well, constellation, snake, timers, engine>>

QueryPoint(x, y, radius) ==
    /\ result' = queryPoint(Hash, x, y, radius)
    /\ call' = HashCalled("queryPoint", <<x, y, radius>>, FALSE)
    /\ UNCHANGED <<enemyAI, levels, app, well, constellation, snake, timers, engine, cells, objects>>

QueryNearest(x, y, count, maxDistance, f) ==
    /\ result' = queryNearest(Hash, x, y, count, maxDistance, Filter(f))
    /\ call' = HashCalled("queryNearest", <<x, y, count, maxDistance, f>>, FALSE)
    /\ UNCHANGED <<enemyAI, levels, app, well, constellation, snake, timers, engine, cells, objects>>

NextHash ==
    \/ \E o \in Objs, p \in Positions, w \in Widths, h \in Heights :
           Add(o, p[1], p[2], w, h)
    \/ \E o \in Objs : Remove(o)
    \/ \E o \in Objs, p \in Positions, w \in Widths, h \in Heights :
           HashUpdate(o, p[1], p[2], w, h)
    \/ Clear
    \/ \E p \in QueryPoints, radius \in Radii : QueryPoint(p[1], p[2], radius)

SpecHash == InitHash /\ [][NextHash]_vars

(***************************************************************************)
(* SpecNearest: objects one unit wide or wider come and go and the nearest *)
(* ones to the origin are asked for.                                       *)
(***************************************************************************)
NextNearest ==
    \/ \E o \in Objs, p \in Positions, w \in Widths \ {1}, h \in Heights :
           Add(o, p[1], p[2], w, h)
    \/ \E o \in Objs : Remove(o)
    \/ \E count \in 1..MaxCount, maxDistance \in MaxDistances, f \in {0} \cup Objs :
           QueryNearest(0, 0, count, maxDistance, f)

SpecNearest == InitHash /\ [][NextNearest]_vars

(***************************************************************************)
(* SpecRaycast: objects at the whole-number positions (10, 0), (20, 0) and *)
(* (0, 10), one unit or 21 units wide, and rays from the origin along the  *)
(* two axes with a maximal distance of 15 or 20.  call.ret tells whether   *)
(* the ray hit, call.num is the distance reported and result holds the     *)
(* object hit.                                                             *)
(***************************************************************************)
RayPositions == {<<20, 0>>, <<40, 0>>, <<0, 20>>}
RayDirections == {<<1, 0>>, <<0, 1>>}
RayDistances == {30, 40}

Raycast(dirX, dirY, maxDistance, f) ==
    LET r == raycast(Hash, 0, 0, dirX, dirY, maxDistance, Filter(f))
    IN  /\ result' = IF r.hit THEN <<r.object>> ELSE <<>>
        /\ call' = [op |-> "raycast", arg |-> "none", num |-> r.distance, ret |-> r.hit,
                    args |-> <<0, 0, dirX, dirY, maxDistance, f>>]
        /\ UNCHANGED <<enemyAI, levels, app, well, constellation, snake, timers, engine, cells, objects>>

NextRaycast ==
    \/ \E o \in Objs, p \in RayPositions, w \in Widths \ {1}, h \in Heights :
           Add(o, p[1], p[2], w, h)
    \/ \E o \in Objs : Remove(o)
    \/ \E d \in RayDirections, maxDistance \in RayDistances, f \in {0} \cup Objs :
           Raycast(d[1], d[2], maxDistance, f)

SpecRaycast == InitHash /\ [][NextRaycast]_vars

(***************************************************************************)
(* SpecDegenerate: objects are added with a width of -1, 0 or 1 and a      *)
(* height of 0 or 1, and points are queried with radius 0.                 *)
(***************************************************************************)
DegenerateWidths == {-2, 0, 2}
DegenerateHeights == {0, 2}

NextDegenerate ==
    \/ \E o \in Objs, p \in Positions, w \in DegenerateWidths, h \in DegenerateHeights :
           Add(o, p[1], p[2], w, h)
    \/ \E o \in Objs : Remove(o)
    \/ \E p \in Positions : QueryPoint(p[1], p[2], 0)

SpecDegenerate == InitHash /\ [][NextDegenerate]_vars

(***************************************************************************)
(* SpecGoal: one ConstellationManager under every order of calls.  timers  *)
(* holds the callbacks startMorphing has scheduled that have not run yet   *)
(* (each the pattern it will set); they run at any later moment, in any    *)
(* order.  result holds the state saveState returned last.  The stars      *)
(* offered are all those of the triangle and of the diamond, one of the    *)
(* cross and one that no pattern has.                                      *)
(***************************************************************************)
MaxCompleted == 2

StarTypes == {"alpha", "beta", "gamma", "top", "left", "right", "bottom", "north", "invalid"}
PatternNames == {"triangle", "diamond", "cross", "unknown"}
MorphDeltaTimes == {2}

InitGoal ==
    /\ SnakeIdle
    /\ EngineIdle
    /\ HashIdle
    /\ ConstellationIdle
    /\ WellIdle
    /\ call = NoCall
    /\ LevelsIdle
    /\ AppIdle
    /\ AiIdle

CollectStar(starType, nextPattern) ==
    LET r == collectStar(constellation, starType, nextPattern)
    IN  /\ IF completes(constellation, starType)
           THEN /\ nextPattern \in selectable(constellation)
                /\ Len(constellation.completedPatterns) < MaxCompleted
                /\ Len(timers) < MaxTimers
           ELSE nextPattern = "triangle"  \* no choice is made: one value is enough
        /\ constellation' = r.cm
        /\ timers' = IF r.ret THEN Append(timers, nextPattern) ELSE timers
        /\ call' = Called("collectStar", starType, 0, r.ret)
        /\ UNCHANGED <<enemyAI, levels, app, well, snake, cells, objects, result, engine>>

SetPattern(patternName) ==
    /\ constellation' = setPattern(constellation, patternName)
    /\ call' = Called("setPattern", patternName, 0, patternName \in Patterns)
    /\ UNCHANGED <<enemyAI, levels, app, well, snake, timers, cells, objects, result, engine>>

\* A callback scheduled by startMorphing runs.
MorphTimeout(i) ==
    /\ i \in DOMAIN timers
    /\ constellation' = setPattern(constellation, timers[i])
    /\ timers' = RemoveAt(timers, i)
    /\ call' = Called("timeout", timers[i], 0, FALSE)
    /\ UNCHANGED <<enemyAI, levels, app, well, snake, cells, objects, result, engine>>

ConstellationUpdate(deltaTime) ==
    /\ constellation' = constellationUpdate(constellation, deltaTime)
    /\ call' = Called("update", "none", deltaTime, FALSE)
    /\ UNCHANGED <<enemyAI, levels, app, well, snake, timers, cells, objects, result, engine>>

ConstellationReset ==
    /\ constellation' = constellationReset(constellation)
    /\ call' = Called("reset", "none", 0, FALSE)
    /\ UNCHANGED <<enemyAI, levels, app, well, snake, timers, cells, objects, result, engine>>

SaveState ==
    /\ result' = <<saveState(constellation)>>
    /\ call' = Called("saveState", "none", 0, FALSE)
    /\ UNCHANGED <<enemyAI, levels, app, well, snake, timers, cells, objects, engine, constellation>>

LoadState ==
    /\ result # <<>>
    /\ constellation' = loadState(constellation, result[1])
    /\ call' = Called("loadState", "none", 0, FALSE)
    /\ UNCHANGED <<enemyAI, levels, app, well, snake, timers, cells, objects, result, engine>>

NextGoal ==
    \/ \E starType \in StarTypes, nextPattern \in Patterns : CollectStar(starType, nextPattern)
    \/ \E patternName \in PatternNames : SetPattern(patternName)
    \/ \E i \in 1..MaxTimers : MorphTimeout(i)
    \/ \E deltaTime \in MorphDeltaTimes : ConstellationUpdate(deltaTime)

SpecGoal == InitGoal /\ [][NextGoal]_vars

(***************************************************************************)
(* SpecSave: the same manager with reset, saveState and loadState; the     *)
(* state loaded is the one saveState returned last.  The stars offered are *)
(* those of the triangle and two of the diamond.                           *)
(***************************************************************************)
SavedStarTypes == {"alpha", "beta", "gamma", "top", "left"}
SavedPatternNames == {"triangle", "diamond", "unknown"}

NextSave ==
    \/ \E starType \in SavedStarTypes, nextPattern \in Patterns :
           CollectStar(starType, nextPattern)
    \/ \E patternName \in SavedPatternNames : SetPattern(patternName)
    \/ \E i \in 1..MaxTimers : MorphTimeout(i)
    \/ ConstellationReset
    \/ SaveState
    \/ LoadState

SpecSave == InitGoal /\ [][NextSave]_vars

(***************************************************************************)
(* SpecGravity: one tick of one snake beside one well.  The snake starts   *)
(* with its head in the cell (0, 0), centre (0.5, 0.5), dead or alive, and *)
(* with the force buffer update has just cleared; it may be given a        *)
(* direction, grow by a booster segment and boost.  applyGravity of the    *)
(* well is then called and the snake is advanced once.  The wells lie at   *)
(* distance 0, 1, 1 and 5 from the centre of the cell (0, 0): (0.5, 0.5),  *)
(* (0.5, 1.5), (1.1, -0.3) and (3.5, 4.5); their strength is 0.5, 1.0 or   *)
(* 1.2 and their radius 0, 40 or 100 pixels.  For applyGravity call.ret    *)
(* tells whether a force was handed to the snake, and result holds that    *)
(* force.                                                                  *)
(***************************************************************************)
WellPositions == {<<5, 5>>, <<5, 15>>, <<11, -3>>, <<35, 45>>}
WellStrengths == {5, 10, 12}
WellRadii == {0, 40, 100}
WellTypes == {"attract", "repel", "vortex", "pulse"}
PulseIntensities == {Frac(0, 1), Frac(1, 2), Frac(1, 1)}

NoForce == [x |-> Frac(0, 1), y |-> Frac(0, 1)]

InitGravity ==
    /\ \E p \in WellPositions, strength \in WellStrengths, radius \in WellRadii,
          type \in WellTypes, active \in BOOLEAN, pulseIntensity \in PulseIntensities :
           well = [x |-> p[1], y |-> p[2], strength |-> strength, radius |-> radius,
                   type |-> type, active |-> active, pulseIntensity |-> pulseIntensity]
    /\ \E alive \in BOOLEAN :
           snake = [NewSnake(0, 0, "player") EXCEPT !.alive = alive,
                                                   !.gravitationalForce = NoForce]
    /\ timers = <<>>
    /\ call = NoCall
    /\ HashIdle
    /\ EngineIdle
    /\ ConstellationIdle
    /\ LevelsIdle
    /\ AppIdle
    /\ AiIdle

\* applyGravity(snake), called before the snake advances.
ApplyGravity ==
    LET f == gravityForce(well, snake.alive, snake.segments[1].x, snake.segments[1].y)
    IN  /\ snake.gravitationalForce = NoForce
        /\ call.op \notin {"applyGravity", "update"}
        /\ snake' = applyGravity(well, snake)
        /\ result' = IF f.handed THEN <<f.x, f.y>> ELSE <<>>
        /\ call' = Called("applyGravity", well.type, 0, f.handed)
        /\ UNCHANGED <<enemyAI, levels, app, well, timers, cells, objects, engine, constellation>>

\* snake.update(deltaTime) after applyGravity, when the force in the buffer
\* is a number; result keeps the force the move was computed with.
Advance(dtMs) ==
    /\ call.op = "applyGravity"
    /\ ~IsNaN(snake.gravitationalForce.x)
    /\ ~IsNaN(snake.gravitationalForce.y)
    /\ snake' = updateExact(snake, dtMs)
    /\ call' = Called("update", well.type, dtMs, call.ret)
    /\ UNCHANGED <<enemyAI, levels, app, well, timers, cells, objects, result, engine, constellation>>

\* The calls made on the snake before the tick.
BeforeTick(A) == call.op \notin {"applyGravity", "update"} /\ A

NextGravity ==
    \/ ApplyGravity
    \/ \E dtMs \in {1000} : Advance(dtMs)
    \/ \E d \in DirNames : BeforeTick(SetDirection(d))
    \/ BeforeTick(Grow("booster", MaxSegments))
    \/ BeforeTick(ActivateBoost)

SpecGravity == InitGravity /\ [][NextGravity]_vars

(***************************************************************************)
(* GameEngine (src/unnamed/part_002).  A game g is the engine with its     *)
(* player: [gameState, score, lives, level, loaded, playerSnake, enemies,  *)
(* gravityWells, collectibles], where loaded is the number of the level    *)
(* the level manager loaded last, whose descriptor getCurrentLevel gives.  *)
(* The grid is MaxX + 1 cells wide and two cells high.  What the engine    *)
(* draws at random or takes from its other systems comes in as the inputs  *)
(* of a call: the direction the AI of the enemies asks for, whether        *)
(* collectStar reports the constellation complete, and the items for which *)
(* findEmptyPosition finds a place.  The game speed, the particles and the *)
(* engine's own spatial hash (rebuilt and never read by a tick) are left   *)
(* out.  The wells of the levels lie further from every cell of the small  *)
(* grid than their radius reaches, so applyGravityEffects hands no force   *)
(* to a snake; one well moves no snake of speed 1 in any case (C23).       *)
(***************************************************************************)
MaxLevel == 3

gridWidth == MaxX + 1
gridHeight == Cardinality(BoxRows)
startX == gridWidth \div 2
startY == gridHeight \div 2

\* 1000 / gameSpeed at the game speed the engine is built with.
updateInterval == 200

\* The enemies of a level's descriptor, put on the small grid: none in
\* levels 1 and 2, one in levels 3 and 4, two in level 5.
LevelEnemies(level) ==
    IF level < 3 THEN <<>>
    ELSE IF level < 5 THEN <<[x |-> MaxX, y |-> 0]>>
    ELSE <<[x |-> MaxX, y |-> 0], [x |-> 0, y |-> 0]>>

\* The wells of a level's descriptor: an attracting well at (20, 15) of
\* strength 0.8 and radius 80 in level 2, none in levels 1 and 3, two in
\* level 4 and a vortex in level 5.
LevelWells(level) ==
    CASE level = 2 -> <<NewGravityWell(200, 150, 8, 80, "attract")>>
      [] level = 4 -> <<NewGravityWell(150, 100, 6, 60, "attract"),
                        NewGravityWell(350, 250, 8, 70, "repel")>>
      [] level = 5 -> <<NewGravityWell(250, 200, 12, 100, "vortex")>>
      [] OTHER -> <<>>

\* The constellationPattern of a level's descriptor.
LevelPattern(level) ==
    IF level < 3 THEN "triangle" ELSE IF level < 5 THEN "cross" ELSE "diamond"

\* An item as spawnCollectibles makes it.
Item(x, y, starType, segmentType) ==
    [x |-> x, y |-> y, starType |-> starType, segmentType |-> segmentType, value |-> 10]

OnSegment(s, x, y) == \E i \in DOMAIN s.segments : s.segments[i].x = x /\ s.segments[i].y = y

\* isPositionEmpty(x, y): on no snake, and not nearer to a well than
\* radius / gridSize cells.
isPositionEmpty(g, x, y) ==
    /\ ~OnSegment(g.playerSnake, x, y)
    /\ \A i \in DOMAIN g.enemies : ~OnSegment(g.enemies[i], x, y)
    /\ \A i \in DOMAIN g.gravityWells :
           LET w == g.gravityWells[i]
           IN  4 * ((10 * x - w.x) * (10 * x - w.x) + (10 * y - w.y) * (10 * y - w.y))
                   >= w.radius * w.radius

\* spawnCollectibles: the items of spawn that lie on an empty position are
\* pushed while the list holds fewer than 5.
spawnCollectibles(g, spawn) ==
    LET found == SelectSeq(spawn, LAMBDA c : isPositionEmpty(g, c.x, c.y))
        room == IF Len(g.collectibles) >= 5 THEN 0 ELSE 5 - Len(g.collectibles)
    IN  [g EXCEPT !.collectibles = @ \o SubSeq(found, 1, Min(room, Len(found)))]

\* setupLevel(): levelData is the descriptor the level manager loaded last.
\* The call of setPattern(levelData.constellationPattern) is made by the
\* specification that keeps the constellation manager.
setupLevel(g, spawn) ==
    LET levelData == LevelEnemies(g.loaded)
    IN  spawnCollectibles(
            [g EXCEPT !.enemies = [i \in DOMAIN levelData |->
                                      NewSnake(levelData[i].x, levelData[i].y, "enemy")],
                      !.gravityWells = LevelWells(g.loaded),
                      !.collectibles = <<>>],
            spawn)

startNewGame(g, spawn) ==
    setupLevel([g EXCEPT !.gameState = "running",
                         !.score = 0,
                         !.level = 1,
                         !.lives = 3,
                         !.playerSnake = reset(@, startX, startY)],
               spawn)

stop(g) == [g EXCEPT !.gameState = "stopped"]

pause(g) == IF g.gameState = "running" THEN [g EXCEPT !.gameState = "paused"] ELSE g

resume(g) == IF g.gameState = "paused" THEN [g EXCEPT !.gameState = "running"] ELSE g

\* Mutant of GameEngine.setDirection: the state of the game is not tested.
engineSetDirection_anyState(g, d) == [g EXCEPT !.playerSnake = setDirection(@, d)]

\* GameEngine.setDirection.
engineSetDirection(g, d) ==
    IF g.gameState = "running" THEN [g EXCEPT !.playerSnake = setDirection(@, d)] ELSE g

\* GameEngine.activateBoost.
engineActivateBoost(g) ==
    IF g.gameState = "running" THEN [g EXCEPT !.playerSnake = activateBoost(@)] ELSE g

respawnPlayer(g) ==
    [g EXCEPT !.playerSnake = setInvulnerable(reset(@, startX, startY), 2000)]

\* nextLevel(): levelManager.loadLevel(this.level), then setupLevel().
nextLevel(g, spawn) ==
    setupLevel([g EXCEPT !.level = @ + 1, !.loaded = g.level + 1], spawn)

\* handleSnakeCollision with every life lost answered by a respawn.
handlePlayerCollision_alwaysRespawn(g) == respawnPlayer([g EXCEPT !.lives = @ - 1])

\* handleSnakeCollision(snake, type) for the player.
handlePlayerCollision(g) ==
    LET g1 == [g EXCEPT !.lives = @ - 1]
    IN  IF g1.lives <= 0 THEN [g1 EXCEPT !.gameState = "stopped"] ELSE respawnPlayer(g1)

\* The snakes of a collision pass: 0 is the player, e > 0 the enemy that was
\* at place e of `all` when the pass began; `there` holds the places whose
\* enemy is still in this.enemies.
SnakeOf(g, all, e) == IF e = 0 THEN g.playerSnake ELSE all[e]

HeadOutside(s) ==
    \/ getHead(s).x < 0 \/ getHead(s).x >= gridWidth
    \/ getHead(s).y < 0 \/ getHead(s).y >= gridHeight

HeadOnBody(s) ==
    \E i \in 2..Len(s.segments) :
        getHead(s).x = s.segments[i].x /\ getHead(s).y = s.segments[i].y

\* collectItem(snake, collectible, index) for the item at place k (from 1).
collectItem(g, isPlayer, k, completed, spawn) ==
    LET collectible == g.collectibles[k]
        g1 == [g EXCEPT !.collectibles = RemoveAt(@, k)]
        g2 == IF ~isPlayer THEN g1
              ELSE LET grown == [g1 EXCEPT !.playerSnake = grow(@, collectible.segmentType),
                                           !.score = @ + collectible.value]
                   IN  IF completed THEN nextLevel([grown EXCEPT !.score = @ + 200], spawn)
                       ELSE grown
    IN  IF Len(g2.collectibles) < 3 THEN spawnCollectibles(g2, spawn) ELSE g2

\* The forEach over the collectibles in checkSnakeCollisions, from place k
\* on, for a head at (x, y).  A splice moves the next item into the place
\* just visited, so that item is passed over.  A call of spawnCollectibles
\* adds at most one item here, which keeps the list at two items or fewer,
\* and so the array the loop was started on has nothing left to visit once
\* nextLevel has put a new array in its place.
RECURSIVE collectAt(_, _, _, _, _, _, _, _)
collectAt(g, isPlayer, x, y, k, length, completed, spawn) ==
    IF k > length \/ k > Len(g.collectibles) THEN g
    ELSE IF g.collectibles[k].x = x /\ g.collectibles[k].y = y
    THEN LET done == completed /\ isPlayer
             g1 == collectItem(g, isPlayer, k, done, spawn)
         IN  IF done THEN g1
             ELSE collectAt(g1, isPlayer, x, y, k + 1, length, completed, spawn)
    ELSE collectAt(g, isPlayer, x, y, k + 1, length, completed, spawn)

\* checkSnakeCollisions(this.playerSnake).
checkPlayerCollisions(g, completed, spawn) ==
    IF HeadOutside(g.playerSnake) \/ HeadOnBody(g.playerSnake)
    THEN handlePlayerCollision(g)
    ELSE collectAt(g, TRUE, getHead(g.playerSnake).x, getHead(g.playerSnake).y,
                   1, Len(g.collectibles), completed, spawn)

\* this.enemies.forEach(enemy => this.checkSnakeCollisions(enemy)) from
\* place k on: a destroyed enemy is spliced out, which moves the next
\* enemy into the place just visited.
RECURSIVE checkEnemyCollisions(_, _, _, _)
checkEnemyCollisions(g, k, length, spawn) ==
    IF k > length \/ k > Len(g.enemies) THEN g
    ELSE LET enemy == g.enemies[k]
         IN  IF HeadOutside(enemy) \/ HeadOnBody(enemy)
             THEN checkEnemyCollisions([g EXCEPT !.enemies = RemoveAt(@, k),
                                                 !.score = @ + 50],
                                       k + 1, length, spawn)
             ELSE checkEnemyCollisions(
                      collectAt(g, FALSE, getHead(enemy).x, getHead(enemy).y,
                                1, Len(g.collectibles), FALSE, spawn),
                      k + 1, length, spawn)

\* The state of a pass over the pairs of snakes: the game (with the player),
\* the enemies as the pass began and as they are now, and which are still
\* in this.enemies.
Pass(g, all, there) == [g |-> g, all |-> all, there |-> there]

\* handleSnakeCollision(snake, type) inside the pass, for snake e.
handleSnakeCollision(p, e) ==
    IF e = 0 THEN [p EXCEPT !.g = handlePlayerCollision(@)]
    ELSE IF e \in p.there THEN [p EXCEPT !.there = @ \ {e}, !.g.score = @ + 50]
    ELSE p

\* snake.grow() inside the pass.
growInPass(p, e) ==
    IF e = 0 THEN [p EXCEPT !.g.playerSnake = grow(@, "normal")]
    ELSE [p EXCEPT !.all[e] = grow(@, "normal")]

checkSnakeCollision(snake1, snake2) ==
    OnSegment(snake2, getHead(snake1).x, getHead(snake1).y)

handleSnakeVsSnakeCollision(p, e1, e2) ==
    LET snake1 == SnakeOf(p.g, p.all, e1)
        snake2 == SnakeOf(p.g, p.all, e2)
    IN  IF Len(snake1.segments) > Len(snake2.segments)
        THEN growInPass(handleSnakeCollision(p, e2), e1)
        ELSE IF Len(snake2.segments) > Len(snake1.segments)
        THEN growInPass(handleSnakeCollision(p, e1), e2)
        ELSE handleSnakeCollision(handleSnakeCollision(p, e1), e2)

\* checkSnakeVsSnakeCollisions from the pair (i, j) on, i < j, over
\* allSnakes = [player, ...enemies] numbered 0 .. Len(all).
RECURSIVE checkPairs(_, _, _)
checkPairs(p, i, j) ==
    IF i >= Len(p.all) THEN p
    ELSE IF j > Len(p.all) THEN checkPairs(p, i + 1, i + 2)
    ELSE checkPairs(
             IF checkSnakeCollision(SnakeOf(p.g, p.all, i), SnakeOf(p.g, p.all, j))
             THEN handleSnakeVsSnakeCollision(p, i, j) ELSE p,
             i, j + 1)

checkSnakeVsSnakeCollisions(g) ==
    LET p == checkPairs(Pass(g, g.enemies, DOMAIN g.enemies), 0, 1)
        left == SelectSeq([e \in DOMAIN p.all |-> e], LAMBDA e : e \in p.there)
    IN  [p.g EXCEPT !.enemies = [k \in DOMAIN left |-> p.all[left[k]]]]

checkCollisions(g, completed, spawn) ==
    LET g1 == checkPlayerCollisions(g, completed, spawn)
        g2 == checkEnemyCollisions(g1, 1, Len(g1.enemies), spawn)
    IN  checkSnakeVsSnakeCollisions(g2)

\* checkLevelObjectives(): the bonus of a level that has enemies in its
\* descriptor and none left.
checkLevelObjectives(g) ==
    IF Len(g.enemies) = 0 /\ Len(LevelEnemies(g.loaded)) > 0
    THEN [g EXCEPT !.score = @ + 100]
    ELSE g

cleanupEntities(g) == [g EXCEPT !.enemies = SelectSeq(@, LAMBDA enemy : enemy.alive)]

\* enemy.ai.update() as far as the snake sees it: a direction is asked for
\* or not.
aiUpdate(enemy, ai) == IF ai = "none" THEN enemy ELSE setDirection(enemy, ai)

\* The game when updateGame has advanced the player and the enemies and is
\* about to call checkCollisions.
advanceSnakes(g, dtMs, ai) ==
    LET g1 == [g EXCEPT !.playerSnake = update(@, dtMs)]
    IN  [g1 EXCEPT !.enemies = [i \in DOMAIN g1.enemies |->
                                   update(aiUpdate(g1.enemies[i], ai), dtMs)]]

\* The game when updateGame has advanced the player and the enemies, each
\* enemy i with the direction ais[i] its own AI asks for.
advanceEach(g, dtMs, ais) ==
    LET g1 == [g EXCEPT !.playerSnake = update(@, dtMs)]
    IN  [g1 EXCEPT !.enemies = [i \in DOMAIN g1.enemies |->
                                   update(aiUpdate(g1.enemies[i], ais[i]), dtMs)]]

\* What updateGame does once the snakes are advanced.
resolveTick(moved, completed, spawn) ==
    cleanupEntities(checkLevelObjectives(checkCollisions(moved, completed, spawn)))

updateGame(g, dtMs, ai, completed, spawn) ==
    resolveTick(advanceSnakes(g, dtMs, ai), completed, spawn)

\* GameEngine.update() when dtMs have passed since the last update.
engineUpdate(g, dtMs, ai, completed, spawn) ==
    IF g.gameState # "running" THEN g
    ELSE IF dtMs >= updateInterval THEN updateGame(g, dtMs, ai, completed, spawn)
    ELSE g

\* getGameState().gameOver
gameOver(g) == g.gameState = "stopped"

(***************************************************************************)
(* SpecEngine: one GameEngine from its construction on, under every order  *)
(* of startNewGame, stop, pause, resume, setDirection and update.          *)
(***************************************************************************)
\* Elapsed times between two updates: 50 ms is below every update interval
\* the engine can have (1000 / 15), 1000 ms is above every one (1000 / 5).
TickTimes == {50, 1000}
AIChoices == {"none", "left", "down"}
SpawnCells == {<<MaxX, 1>>, <<0, 0>>}
ItemKinds == {"armored"}
\* The items findEmptyPosition may find a place for in one call.
Spawns ==
    {<<>>} \cup {<<Item(c[1], c[2], "alpha", kind)>> : c \in SpawnCells, kind \in ItemKinds}

\* SpecEngine does not keep the score, which the engine never reads: a call
\* starts from 0 and update records the points it has added in call.num.
Game ==
    [gameState |-> engine.gameState, score |-> 0, lives |-> engine.lives,
     level |-> engine.level, loaded |-> engine.loaded,
     playerSnake |-> snake, enemies |-> engine.enemies,
     gravityWells |-> engine.gravityWells, collectibles |-> engine.collectibles]

SetGame(g) ==
    /\ snake' = g.playerSnake
    /\ engine' = [gameState |-> g.gameState, lives |-> g.lives, level |-> g.level,
                  loaded |-> g.loaded, enemies |-> g.enemies,
                  collectibles |-> g.collectibles, gravityWells |-> g.gravityWells]

\* The engine as its constructor leaves it: initializeGame has made the
\* player and set up level 1.
InitEngine ==
    /\ \E spawn \in Spawns :
          LET g == setupLevel([gameState |-> "stopped", score |-> 0, lives |-> 3,
                               level |-> 1, loaded |-> 1,
                               playerSnake |-> NewSnake(startX, startY, "player"),
                               enemies |-> <<>>, gravityWells |-> <<>>,
                               collectibles |-> <<>>], spawn)
          IN  /\ snake = g.playerSnake
              /\ engine = [gameState |-> g.gameState, lives |-> g.lives,
                           level |-> g.level, loaded |-> g.loaded, enemies |-> g.enemies,
                           collectibles |-> g.collectibles,
                           gravityWells |-> g.gravityWells]
    /\ timers = <<>>
    /\ call = NoCall
    /\ HashIdle
    /\ ConstellationIdle
    /\ WellIdle
    /\ LevelsIdle
    /\ AppIdle
    /\ AiIdle

StartNewGame(spawn) ==
    /\ SetGame(startNewGame(Game, spawn))
    /\ call' = Called("startNewGame", "none", 0, FALSE)
    /\ UNCHANGED <<enemyAI, levels, app, well, constellation, timers, cells, objects, result>>

Stop ==
    /\ SetGame(stop(Game))
    /\ call' = NoCall
    /\ UNCHANGED <<enemyAI, levels, app, well, constellation, timers, cells, objects, result>>

Pause ==
    /\ SetGame(pause(Game))
    /\ call' = NoCall
    /\ UNCHANGED <<enemyAI, levels, app, well, constellation, timers, cells, objects, result>>

Resume ==
    /\ SetGame(resume(Game))
    /\ call' = NoCall
    /\ UNCHANGED <<enemyAI, levels, app, well, constellation, timers, cells, objects, result>>

EngineSetDirection(d) ==
    /\ SetGame(engineSetDirection(Game, d))
    /\ call' = NoCall
    /\ UNCHANGED <<enemyAI, levels, app, well, constellation, timers, cells, objects, result>>

\* update(): the snapshot it returns is recorded by its gameOver flag, with
\* the direction the AI asked for, the points the call added and, in args,
\* the time since the last update; the calls that return nothing leave no
\* record.  No tick is taken once a snake is
\* longer than MaxSegments or, with a goal completed, the level is MaxLevel.
EngineUpdate(dtMs, ai, completed, spawn) ==
    /\ Len(snake.segments) <= MaxSegments
    /\ \A i \in DOMAIN engine.enemies : Len(engine.enemies[i].segments) <= MaxSegments
    /\ completed => engine.level < MaxLevel
    /\ LET g == engineUpdate(Game, dtMs, ai, completed, spawn)
       IN  /\ SetGame(g)
           /\ call' = [Called("update", ai, g.score, gameOver(g)) EXCEPT !.args = <<dtMs>>]
    /\ UNCHANGED <<enemyAI, levels, app, well, constellation, timers, cells, objects, result>>

NextEngine ==
    \/ \E spawn \in Spawns : StartNewGame(spawn)
    \/ Stop
    \/ Pause
    \/ Resume
    \/ \E d \in DirInputs : EngineSetDirection(d)
    \/ \E dtMs \in TickTimes, ai \in AIChoices, completed \in BOOLEAN, spawn \in Spawns :
           EngineUpdate(dtMs, ai, completed, spawn)

SpecEngine == InitEngine /\ [][NextEngine]_vars

(***************************************************************************)
(* SpecLevel: the engine together with its constellation manager and the   *)
(* score, from the construction on, through the levels that have no        *)
(* enemies.  The player is steered upwards only.  engine holds the score as well; *)
(* timers holds the callbacks startMorphing has scheduled that have not    *)
(* run yet (each the pattern it will set), which run at any later moment.  *)
(* An item is spawned for one of the stars getNeededStars returns, the one *)
(* findEmptyPosition finds a place for.                                    *)
(***************************************************************************)
MaxScore == 300

\* The places findEmptyPosition may find: ahead of the start, and above it.
LevelSpawnCells == {<<MaxX, 1>>, <<startX, 0>>}

\* The bonus in the descriptor of a pattern.
bonus(patternName) ==
    CASE patternName = "triangle" -> 150
      [] patternName = "cross" -> 200
      [] patternName = "spiral" -> 300
      [] patternName = "diamond" -> 180
      [] OTHER -> 0

\* getNeededStars()
getNeededStars(cm) ==
    IF cm.currentPattern \notin Patterns THEN {}
    ELSE stars(cm.currentPattern) \ cm.collectedStars

\* The place in g.collectibles of the item checkSnakeCollisions(playerSnake)
\* collects, 0 when it collects none.
collectedByPlayer(g) ==
    LET head == getHead(g.playerSnake)
        under == {k \in DOMAIN g.collectibles :
                     g.collectibles[k].x = head.x /\ g.collectibles[k].y = head.y}
    IN  IF HeadOutside(g.playerSnake) \/ HeadOnBody(g.playerSnake) \/ under = {} THEN 0
        ELSE CHOOSE k \in under : \A j \in under : k <= j

ScoredGame == [Game EXCEPT !.score = engine.score]

SetScoredGame(g) ==
    /\ snake' = g.playerSnake
    /\ engine' = [gameState |-> g.gameState, lives |-> g.lives, level |-> g.level,
                  loaded |-> g.loaded, enemies |-> g.enemies,
                  collectibles |-> g.collectibles, gravityWells |-> g.gravityWells,
                  score |-> g.score]

\* The items spawnCollectibles pushes when findEmptyPosition finds the place
\* cell for the star starType alone.
SpawnFor(cm, starType, cell, kind) ==
    IF starType \in getNeededStars(cm)
    THEN <<Item(cell[1], cell[2], starType, kind)>>
    ELSE <<>>

InitLevel ==
    /\ \E starType \in stars(LevelPattern(1)), cell \in LevelSpawnCells, kind \in ItemKinds :
          LET cm == setPattern(NewConstellationManager, LevelPattern(1))
              g == setupLevel([gameState |-> "stopped", score |-> 0, lives |-> 3,
                               level |-> 1, loaded |-> 1,
                               playerSnake |-> NewSnake(startX, startY, "player"),
                               enemies |-> <<>>, gravityWells |-> <<>>,
                               collectibles |-> <<>>],
                              SpawnFor(cm, starType, cell, kind))
          IN  /\ snake = g.playerSnake
              /\ engine = [gameState |-> g.gameState, lives |-> g.lives,
                           level |-> g.level, loaded |-> g.loaded, enemies |-> g.enemies,
                           collectibles |-> g.collectibles,
                           gravityWells |-> g.gravityWells, score |-> g.score]
              /\ constellation = cm
    /\ timers = <<>>
    /\ call = NoCall
    /\ HashIdle
    /\ WellIdle
    /\ LevelsIdle
    /\ AppIdle
    /\ AiIdle

\* startNewGame(): setupLevel calls setPattern with the pattern of the level
\* loaded last, then spawnCollectibles.
LevelStartNewGame(starType, cell, kind) ==
    LET cm == setPattern(constellation, LevelPattern(engine.loaded))
    IN  /\ starType \in getNeededStars(cm)
        /\ SetScoredGame(startNewGame(ScoredGame, SpawnFor(cm, starType, cell, kind)))
        /\ constellation' = cm
        /\ call' = Called("startNewGame", "none", 0, FALSE)
        /\ UNCHANGED <<enemyAI, levels, app, well, timers, cells, objects, result>>

LevelPause ==
    /\ SetScoredGame(pause(ScoredGame))
    /\ call' = Called("pause", "none", 0, FALSE)
    /\ UNCHANGED <<enemyAI, levels, app, well, constellation, timers, cells, objects, result>>

LevelResume ==
    /\ SetScoredGame(resume(ScoredGame))
    /\ call' = Called("resume", "none", 0, FALSE)
    /\ UNCHANGED <<enemyAI, levels, app, well, constellation, timers, cells, objects, result>>

LevelSetDirection(d) ==
    /\ SetScoredGame(engineSetDirection(ScoredGame, d))
    /\ call' = Called("setDirection", d, 0, FALSE)
    /\ UNCHANGED <<enemyAI, levels, app, well, constellation, timers, cells, objects, result>>

LevelStop ==
    /\ SetScoredGame(stop(ScoredGame))
    /\ call' = Called("stop", "none", 0, FALSE)
    /\ UNCHANGED <<enemyAI, levels, app, well, constellation, timers, cells, objects, result>>

\* update() with the constellation manager: collectItem hands the star of
\* the item the player collects to collectStar, whose answer decides on
\* nextLevel(); nextLevel loads the next level, whose pattern setupLevel
\* sets before it spawns.  call.arg is the star collected, call.num the
\* time since the last update.  No tick is taken once the player is longer
\* than MaxSegments or the score has reached MaxScore, and no constellation
\* is completed in the last level without enemies.
LevelUpdate(dtMs, nextPattern, starType, cell, kind) ==
    LET g == ScoredGame
        ticking == g.gameState = "running" /\ dtMs >= updateInterval
        k == IF ticking THEN collectedByPlayer(advanceSnakes(g, dtMs, "none")) ELSE 0
        star == IF k = 0 THEN "none" ELSE g.collectibles[k].starType
        r == IF k = 0 THEN [cm |-> constellation, ret |-> FALSE]
             ELSE collectStar(constellation, star, nextPattern)
        cm == IF r.ret THEN setPattern(r.cm, LevelPattern(g.level + 1)) ELSE r.cm
    IN  /\ Len(snake.segments) <= MaxSegments
        /\ engine.score < MaxScore
        /\ IF r.ret
           THEN /\ nextPattern \in selectable(constellation)
                /\ Len(constellation.completedPatterns) < MaxCompleted
                /\ Len(timers) < MaxTimers
                /\ engine.level + 1 < MaxLevel
           ELSE nextPattern = "triangle"
        /\ starType \in getNeededStars(cm)
        /\ SetScoredGame(engineUpdate(g, dtMs, "none", r.ret, SpawnFor(cm, starType, cell, kind)))
        /\ constellation' = cm
        /\ timers' = IF r.ret THEN Append(timers, nextPattern) ELSE timers
        /\ call' = Called("update", star, dtMs, r.ret)
        /\ UNCHANGED <<enemyAI, levels, app, well, cells, objects, result>>

NextLevel ==
    \/ \E starType \in StarTypes, cell \in LevelSpawnCells, kind \in ItemKinds :
           LevelStartNewGame(starType, cell, kind)
    \/ LevelPause
    \/ LevelResume
    \/ LevelStop
    \/ \E d \in {"up"} : LevelSetDirection(d)
    \/ \E dtMs \in {1000}, nextPattern \in Patterns, starType \in StarTypes,
          cell \in LevelSpawnCells, kind \in ItemKinds :
           LevelUpdate(dtMs, nextPattern, starType, cell, kind)
    \/ \E i \in 1..MaxTimers : MorphTimeout(i)

SpecLevel == InitLevel /\ [][NextLevel]_vars

(***************************************************************************)
(* SpecArena: the engine in level 5, the first level with two enemies,     *)
(* from the moment nextLevel() has set the level up: the player has just   *)
(* collected the last star of level 4 at the centre of the grid (so it has *)
(* two segments at least) with one to three lives left.  Each enemy has    *)
(* its own AI, so each is given its own direction; no constellation is     *)
(* completed here.  The score is handled as in SpecEngine.  timers holds   *)
(* the delays of the callbacks activateBoost has scheduled, which run at   *)
(* any later moment.                                                       *)
(***************************************************************************)
ArenaAI == {"none", "down", "left", "right"}
\* The item findEmptyPosition finds a place for.
ArenaSpawns == {<<Item(MaxX, 1, "north", "booster")>>}

\* GameEngine.update() with a direction for each enemy.
engineUpdateEach(g, dtMs, ais, completed, spawn) ==
    IF g.gameState # "running" THEN g
    ELSE IF dtMs >= updateInterval THEN resolveTick(advanceEach(g, dtMs, ais), completed, spawn)
    ELSE g

InitArena ==
    /\ \E x \in {startX}, y \in {startY}, lives \in 1..3, spawn \in ArenaSpawns :
          LET g == nextLevel([gameState |-> "running", score |-> 0, lives |-> lives,
                              level |-> 4, loaded |-> 4,
                              playerSnake |-> grow(NewSnake(x, y, "player"), "booster"),
                              enemies |-> <<>>, gravityWells |-> LevelWells(4),
                              collectibles |-> <<>>], spawn)
          IN  /\ snake = g.playerSnake
              /\ engine = [gameState |-> g.gameState, lives |-> g.lives,
                           level |-> g.level, loaded |-> g.loaded, enemies |-> g.enemies,
                           collectibles |-> g.collectibles,
                           gravityWells |-> g.gravityWells]
    /\ timers = <<>>
    /\ call = NoCall
    /\ HashIdle
    /\ ConstellationIdle
    /\ WellIdle
    /\ LevelsIdle
    /\ AppIdle
    /\ AiIdle

ArenaSetDirection(d) ==
    /\ LET g == engineSetDirection(Game, d)
       IN  /\ SetGame(g)
           /\ call' = Called("setDirection", d, g.score, FALSE)
    /\ UNCHANGED <<enemyAI, levels, app, well, constellation, timers, cells, objects, result>>

ArenaActivateBoost ==
    /\ LET g == engineActivateBoost(Game)
       IN  /\ SetGame(g)
           /\ call' = Called("activateBoost", "none", g.score, FALSE)
           /\ IF g.playerSnake # snake
              THEN /\ Len(timers) < MaxTimers
                   /\ timers' = Append(timers, BoostDelay(CountType(snake.segments, "booster")))
              ELSE timers' = timers
    /\ UNCHANGED <<enemyAI, levels, app, well, constellation, cells, objects, result>>

\* update(): call.num is the number of points the call has added, call.args
\* the time since the last update and the directions of the AIs.
ArenaUpdate(dtMs, ais, spawn) ==
    /\ Len(snake.segments) <= MaxSegments
    /\ LET g == engineUpdateEach(Game, dtMs, ais, FALSE, spawn)
       IN  /\ SetGame(g)
           /\ call' = [Called("update", "none", g.score, gameOver(g))
                          EXCEPT !.args = <<dtMs>> \o ais]
    /\ UNCHANGED <<enemyAI, levels, app, well, constellation, timers, cells, objects, result>>

NextArena ==
    \/ \E spawn \in ArenaSpawns : StartNewGame(spawn)
    \/ Stop
    \/ Pause
    \/ Resume
    \/ \E d \in {"up"} : ArenaSetDirection(d)
    \/ ArenaActivateBoost
    \/ \E i \in 1..MaxTimers : BoostTimeout(i)
    \/ \E dtMs \in {1000}, a1 \in ArenaAI, a2 \in ArenaAI, spawn \in ArenaSpawns :
           ArenaUpdate(dtMs, <<a1, a2>>, spawn)

SpecArena == InitArena /\ [][NextArena]_vars

(***************************************************************************)
(* SpecLevels: one LevelManager from its construction on, under every      *)
(* order of loadLevel, saveProgress, loadProgress and resetProgress, with  *)
(* a localStorage whose item may be overwritten from outside.              *)
(***************************************************************************)
\* Levels 1 and 5 have templates; 7 and 8 are medium, 10 is hard, 16 extreme.
LoadedLevels == {1, 5, 7, 8, 10, 16}
\* Date.now() at a call.
Nows == {1000, 2000}
\* What may be found in localStorage: a text that is no JSON, the text
\* "null", "{}", and objects saveProgress could have written.
Items ==
    {[kind |-> k, currentLevel |-> 0, proceduralSeed |-> 0] : k \in {"garbage", "null", "object"}}
        \cup {[kind |-> "object", currentLevel |-> 9, proceduralSeed |-> 57]}

InitLevels ==
    /\ \E now \in Nows : levels = NewLevelManager(now)
    /\ SnakeIdle
    /\ EngineIdle
    /\ ConstellationIdle
    /\ WellIdle
    /\ HashIdle
    /\ AppIdle
    /\ AiIdle
    /\ call = NoCall

LoadLevel(levelNumber) ==
    /\ levels' = loadLevel(levels, levelNumber)
    /\ call' = Called("loadLevel", "none", levelNumber, FALSE)
    /\ UNCHANGED <<snake, timers, cells, objects, result, engine, constellation, well, app, enemyAI>>

SaveProgress ==
    /\ levels' = saveProgress(levels)
    /\ call' = Called("saveProgress", "none", 0, FALSE)
    /\ UNCHANGED <<snake, timers, cells, objects, result, engine, constellation, well, app, enemyAI>>

\* loadProgress(): call.arg is the kind of the item found, call.num the time.
LoadProgress(now) ==
    /\ levels' = loadProgress(levels, now)
    /\ call' = Called("loadProgress", levels.stored.kind, now,
                      levels.stored.kind = "object")
    /\ UNCHANGED <<snake, timers, cells, objects, result, engine, constellation, well, app, enemyAI>>

ResetProgress(now) ==
    /\ levels' = resetProgress(levels, now)
    /\ call' = Called("resetProgress", "none", now, FALSE)
    /\ UNCHANGED <<snake, timers, cells, objects, result, engine, constellation, well, app, enemyAI>>

\* localStorage.setItem('serpentis_progress', ...) by anything but the manager.
SetItem(item) ==
    /\ levels' = [levels EXCEPT !.stored = item]
    /\ call' = Called("setItem", item.kind, 0, FALSE)
    /\ UNCHANGED <<snake, timers, cells, objects, result, engine, constellation, well, app, enemyAI>>

NextLevels ==
    \/ \E levelNumber \in LoadedLevels : LoadLevel(levelNumber)
    \/ SaveProgress
    \/ \E now \in Nows : LoadProgress(now)
    \/ \E now \in Nows : ResetProgress(now)
    \/ \E item \in Items : SetItem(item)

SpecLevels == InitLevels /\ [][NextLevels]_vars

(***************************************************************************)
(* EnemyAI (src/src/entities/enemy-ai.js).  The AI of enemy e of a game g  *)
(* reads the grid, the snakes and the wells of the engine and commands its *)
(* own snake.  What a behaviour archetype asks for in a decision comes in  *)
(* as an input: nothing, a target given to setTarget, or a direction given *)
(* to the snake directly (patrolBehavior, searchBehavior, avoidTarget).    *)
(* An operator on the AI takes and gives a pair [g, a] of the game and the *)
(* fields of the AI.                                                       *)
(***************************************************************************)
\* The names in the order of calculateBestDirection's array `directions`.
BestOrder == <<"right", "left", "down", "up">>
\* Object.keys(directions) of applyCollisionAvoidance.
Alternatives == <<"up", "down", "left", "right">>

\* isPositionSafe(position) for the AI of enemy e.  A well's position is
\* stored in tenths, so distances are compared in tenths, squared.
isPositionSafe(g, e, x, y) ==
    /\ ~(x < 0 \/ x >= gridWidth \/ y < 0 \/ y >= gridHeight)
    /\ ~OnSegment(g.enemies[e], x, y)
    /\ g.playerSnake.alive => ~OnSegment(g.playerSnake, x, y)
    /\ \A i \in DOMAIN g.enemies :
           (i # e /\ g.enemies[i].alive) => ~OnSegment(g.enemies[i], x, y)
    /\ \A i \in DOMAIN g.gravityWells :
           LET w == g.gravityWells[i]
               d2 == (w.x - 10 * x) * (w.x - 10 * x) + (w.y - 10 * y) * (w.y - 10 * y)
           IN  ~(w.type = "repel" /\ d2 <= 100 * w.radius * w.radius /\ d2 < 400)

\* The cell one step from the head of snake s in the direction named.
StepFrom(s, name) ==
    [x |-> getHead(s).x + directions(name).x, y |-> getHead(s).y + directions(name).y]

\* The cost calculateBestDirection gives a direction: the Manhattan
\* distance to the target from the cell it leads to.
cost(s, target, name) ==
    Abs(target.x - getHead(s).x - directions(name).x)
        + Abs(target.y - getHead(s).y - directions(name).y)

\* directions.sort((a, b) => a.cost - b.cost): a stable sort, so of two
\* directions of equal cost the one written first comes first.
sortByCost(s, target) ==
    LET before(j, i) == \/ cost(s, target, BestOrder[j]) < cost(s, target, BestOrder[i])
                        \/ /\ cost(s, target, BestOrder[j]) = cost(s, target, BestOrder[i])
                           /\ j < i
        place(i) == 1 + Cardinality({j \in 1..4 : before(j, i)})
    IN  [p \in 1..4 |-> BestOrder[CHOOSE i \in 1..4 : place(i) = p]]

\* Mutant of calculateBestDirection: the cheapest direction, safe or not.
calculateBestDirection_unfiltered(g, e, target) == sortByCost(g.enemies[e], target)[1]

\* Mutant of calculateBestDirection: the directions are not sorted.
calculateBestDirection_unsorted(g, e, target) ==
    LET s == g.enemies[e]
        safe == SelectSeq(BestOrder, LAMBDA name :
                    isPositionSafe(g, e, StepFrom(s, name).x, StepFrom(s, name).y))
    IN  IF safe = <<>> THEN BestOrder[1] ELSE safe[1]

calculateBestDirection(g, e, target) ==
    LET s == g.enemies[e]
        sorted == sortByCost(s, target)
        safe == SelectSeq(sorted, LAMBDA name :
                    isPositionSafe(g, e, StepFrom(s, name).x, StepFrom(s, name).y))
    IN  IF safe = <<>> THEN sorted[1] ELSE safe[1]

\* setTarget(position, action); currentTarget is never read by a decision.
setTarget(p, e, position) ==
    IF p.a.pathfindingCooldown <= 0
    THEN [g |-> [p.g EXCEPT !.enemies[e] =
                    setDirection(@, calculateBestDirection(p.g, e, position))],
          a |-> [p.a EXCEPT !.pathfindingCooldown = 15]]
    ELSE p

applyCollisionAvoidance(g, e) ==
    LET s == g.enemies[e]
        currentDirection == getCurrentDirectionName(s)
        safeTo(name) == isPositionSafe(g, e, StepFrom(s, name).x, StepFrom(s, name).y)
        found == SelectSeq(Alternatives, LAMBDA name : name # currentDirection /\ safeTo(name))
    IN  IF safeTo(currentDirection) \/ found = <<>> THEN g
        ELSE [g EXCEPT !.enemies[e] = setDirection(s, found[1])]

\* What a behaviour asks for in one decision.
Behaviour(kind, x, y, name) == [kind |-> kind, x |-> x, y |-> y, name |-> name]

\* The commands of the behaviour, before makeDecision calls
\* applyCollisionAvoidance.
behave(p, e, behaviour) ==
    CASE behaviour.kind = "target" -> setTarget(p, e, behaviour)
      [] behaviour.kind = "direction" ->
             [p EXCEPT !.g.enemies[e] = setDirection(@, behaviour.name)]
      [] OTHER -> p

makeDecision(p, e, behaviour) ==
    LET p1 == behave(p, e, behaviour)
    IN  [p1 EXCEPT !.g = applyCollisionAvoidance(p1.g, e)]

\* detectStuck(); randomDir is the direction drawn when the snake is stuck.
detectStuck(p, e, randomDir) ==
    LET head == getHead(p.g.enemies[e])
        here == [x |-> head.x, y |-> head.y]
        counter == IF p.a.lastPosition = here THEN p.a.stuckCounter + 1 ELSE 0
    IN  [g |-> IF counter > 10
               THEN [p.g EXCEPT !.enemies[e] = setDirection(@, randomDir)]
               ELSE p.g,
         a |-> [p.a EXCEPT !.stuckCounter = IF counter > 10 THEN 0 ELSE counter,
                           !.lastPosition = here]]

\* The AI when update() has counted its cooldowns down and called
\* detectStuck, and is about to test decisionCooldown.
beforeDecision(p, e, randomDir) ==
    detectStuck([p EXCEPT !.a.pathfindingCooldown = IF @ > 0 THEN @ - 1 ELSE @,
                          !.a.decisionCooldown = IF @ > 0 THEN @ - 1 ELSE @],
                e, randomDir)

\* EnemyAI.update().
enemyAIUpdate(p, e, behaviour, randomDir) ==
    IF ~p.g.enemies[e].alive THEN p
    ELSE LET p1 == beforeDecision(p, e, randomDir)
         IN  IF p1.a.decisionCooldown <= 0
             THEN [makeDecision(p1, e, behaviour) EXCEPT !.a.decisionCooldown = 30]
             ELSE p1

\* updateGame as far as the enemies are advanced, for a game with one enemy
\* at most: the player first, then the AI of the enemy and the enemy.
advanceWithAI(p, dtMs, behaviour, randomDir) ==
    LET p1 == [p EXCEPT !.g.playerSnake = update(@, dtMs)]
    IN  IF p1.g.enemies = <<>> THEN p1
        ELSE [enemyAIUpdate(p1, 1, behaviour, randomDir)
                 EXCEPT !.g.enemies[1] = update(@, dtMs)]

\* GameEngine.update() with the AI of the enemy.
engineUpdateAI(p, dtMs, behaviour, randomDir, spawn) ==
    IF p.g.gameState # "running" \/ dtMs < updateInterval THEN p
    ELSE LET moved == advanceWithAI(p, dtMs, behaviour, randomDir)
         IN  [moved EXCEPT !.g = resolveTick(moved.g, FALSE, spawn)]

(***************************************************************************)
(* SpecAI: the engine in the middle of a level with one enemy and its AI.  *)
(* The game begins with the enemy and the player anywhere on the grid,     *)
(* the enemy heading any way, a decision due now or at the next tick, and  *)
(* with or without a repelling well at the corner of the grid.  The        *)
(* delayed setTarget of the mimic behaviour is not an action; a            *)
(* pathfindingCooldown still running at a decision, which only that call   *)
(* brings about, is among the initial states.                              *)
(***************************************************************************)
\* The targets a behaviour may choose: the head of the player, an item.
Targets == {<<0, 0>>, <<MaxX, 1>>}
Behaviours ==
    {Behaviour("none", 0, 0, "none")}
        \cup {Behaviour("target", t[1], t[2], "none") : t \in Targets}
        \cup {Behaviour("direction", 0, 0, name) : name \in {"left"}}
\* The wells of the level: none, or a repelling well at cell (0, 0).
AIWells == {<<>>, <<NewGravityWell(0, 0, 8, 40, "repel")>>}
\* The places of a direction's name in Alternatives; 0 stands for no name.
DirIndex(name) == IF name \in DirNames THEN CHOOSE i \in 1..4 : Alternatives[i] = name ELSE 0
\* The name of the buffered direction of a snake.
Buffered(s) == getCurrentDirectionName([s EXCEPT !.direction = s.nextDirection])

\* A snake of one or two segments heading the way named, its second
\* segment behind the head.
Heading(type, x, y, name, length) ==
    LET s == [NewSnake(x, y, type) EXCEPT !.direction = directions(name),
                                          !.nextDirection = directions(name)]
    IN  IF length = 1 THEN s
        ELSE [s EXCEPT !.segments = Append(@, [x |-> x - directions(name).x,
                                               y |-> y - directions(name).y,
                                               type |-> "normal"])]

CellsOf(s) == {<<s.segments[i].x, s.segments[i].y>> : i \in DOMAIN s.segments}

InitAI ==
    /\ \E px \in 0..MaxX, py \in BoxRows, ex \in 0..MaxX, ey \in BoxRows,
          name \in DirNames, pl \in 1..2, el \in 1..2, wells \in AIWells :
          LET player == Heading("player", px, py, "right", pl)
              enemy == Heading("enemy", ex, ey, name, el)
          IN  /\ \A c \in CellsOf(player) \cup CellsOf(enemy) : InBox(c[1], c[2])
              /\ CellsOf(player) \cap CellsOf(enemy) = {}
              /\ snake = player
              /\ engine = [gameState |-> "running", lives |-> 3, level |-> 3,
                           loaded |-> 3, enemies |-> <<enemy>>,
                           collectibles |-> <<>>, gravityWells |-> wells]
    /\ \E pc \in {0, 3}, dc \in {0, 2} :
          enemyAI = [NewEnemyAI EXCEPT !.pathfindingCooldown = pc, !.decisionCooldown = dc]
    /\ timers = <<>>
    /\ call = NoCall
    /\ HashIdle
    /\ ConstellationIdle
    /\ WellIdle
    /\ LevelsIdle
    /\ AppIdle

\* update(): call.arg is the buffered direction of the enemy when its AI
\* has been updated ("none" when there is no living enemy); call.args holds
\* the time since the last update, the place in Alternatives of the
\* direction buffered when makeDecision is about to call
\* applyCollisionAvoidance, the place of the direction
\* calculateBestDirection has returned (0 when it was not called) and the
\* target it was given.
AIUpdate(dtMs, behaviour, randomDir) ==
    /\ Len(snake.segments) <= MaxSegments
    /\ \A i \in DOMAIN engine.enemies : Len(engine.enemies[i].segments) <= MaxSegments
    /\ LET p == [g |-> Game, a |-> enemyAI]
           p1 == [p EXCEPT !.g.playerSnake = update(@, dtMs)]
           acts == p.g.gameState = "running" /\ p.g.enemies # <<>> /\ p.g.enemies[1].alive
           p2 == beforeDecision(p1, 1, randomDir)
           decides == acts /\ p2.a.decisionCooldown <= 0
           p3 == behave(p2, 1, behaviour)
           asked == decides /\ behaviour.kind = "target" /\ p2.a.pathfindingCooldown <= 0
           after == enemyAIUpdate(p1, 1, behaviour, randomDir)
           q == engineUpdateAI(p, dtMs, behaviour, randomDir, <<>>)
       IN  /\ SetGame(q.g)
           /\ enemyAI' = q.a
           /\ call' = [Called("update",
                              IF acts THEN Buffered(after.g.enemies[1]) ELSE "none",
                              q.g.score, gameOver(q.g))
                          EXCEPT !.args =
                              <<dtMs,
                                IF decides THEN DirIndex(Buffered(p3.g.enemies[1])) ELSE 0,
                                IF asked
                                THEN DirIndex(calculateBestDirection(p2.g, 1, behaviour))
                                ELSE 0,
                                behaviour.x, behaviour.y>>]
    /\ UNCHANGED <<levels, app, well, constellation, timers, cells, objects, result>>

AISetDirection(d) ==
    /\ SetGame(engineSetDirection(Game, d))
    /\ call' = Called("setDirection", d, 0, FALSE)
    /\ UNCHANGED <<enemyAI, levels, app, well, constellation, timers, cells, objects, result>>

NextAI ==
    \/ \E behaviour \in Behaviours : AIUpdate(1000, behaviour, "up")
    \/ \E d \in {"up", "down"} : AISetDirection(d)

SpecAI == InitAI /\ [][NextAI]_vars

(***************************************************************************)
(* SerpentisNexus (src/src/main.js).  An operator on the application takes *)
(* and gives [g, app, timers]: the game of its engine, its own fields and  *)
(* the callbacks of handleGameOver waiting for their 3000 ms.  app.screen  *)
(* is what the UI manager shows (menu, game, pause, gameOver) and          *)
(* app.frames the number of requestAnimationFrame callbacks waiting.  The  *)
(* level editor is left out.                                               *)
(***************************************************************************)
MaxFrames == 2

\* handleGameOver(gameState).
handleGameOver(p) == [p EXCEPT !.app.screen = "gameOver", !.timers = Append(@, 3000)]

\* updateGameLoop(), dtMs after the engine's last update.
updateGameLoop(p, dtMs) ==
    IF p.app.currentMode # "game" THEN p
    ELSE LET g == engineUpdate(p.g, dtMs, "none", FALSE, <<>>)
         IN  IF gameOver(g) THEN handleGameOver([p EXCEPT !.g = g])
             ELSE [p EXCEPT !.g = g, !.app.frames = @ + 1]

returnToMenu(p) ==
    [p EXCEPT !.app.currentMode = "menu", !.app.screen = "menu", !.g = stop(@)]

startGame(p, dtMs) ==
    updateGameLoop([p EXCEPT !.app.currentMode = "game", !.app.screen = "game",
                             !.g = startNewGame(@, <<>>)],
                   dtMs)

pauseGame(p) == [p EXCEPT !.g = pause(@), !.app.screen = "pause"]

resumeGame(p) == [p EXCEPT !.g = resume(@), !.app.screen = "game"]

togglePause(p) == IF p.g.gameState = "paused" THEN resumeGame(p) ELSE pauseGame(p)

(***************************************************************************)
(* SpecApp: the application from the menu on, under every order of the     *)
(* buttons (new game, replay, main menu), the pause key, the direction     *)
(* keys, the animation frames and the callbacks of handleGameOver.  The    *)
(* levels played have no enemies and no items are spawned.                 *)
(***************************************************************************)
App == [g |-> Game, app |-> app, timers |-> timers]

SetApp(p) ==
    /\ SetGame(p.g)
    /\ app' = p.app
    /\ timers' = p.timers

InitApp ==
    /\ snake = NewSnake(startX, startY, "player")
    /\ engine = [gameState |-> "stopped", lives |-> 3, level |-> 1, loaded |-> 1,
                 enemies |-> <<>>, collectibles |-> <<>>, gravityWells |-> <<>>]
    /\ timers = <<>>
    /\ call = NoCall
    /\ HashIdle
    /\ ConstellationIdle
    /\ WellIdle
    /\ LevelsIdle
    /\ AppIdle
    /\ AiIdle

\* The button of the menu and the button 'Rejouer' of the game-over screen.
AppStartGame(dtMs) ==
    /\ app.screen \in {"menu", "gameOver"}
    /\ app.frames < MaxFrames
    /\ SetApp(startGame(App, dtMs))
    /\ call' = Called("startGame", "none", dtMs, FALSE)
    /\ UNCHANGED <<enemyAI, levels, well, constellation, cells, objects, result>>

\* A requestAnimationFrame callback runs.  No game is ended while
\* MaxTimers callbacks of handleGameOver are waiting.
Frame(dtMs) ==
    /\ app.frames > 0
    /\ LET p == updateGameLoop([App EXCEPT !.app.frames = @ - 1], dtMs)
       IN  /\ Len(p.timers) <= MaxTimers
           /\ SetApp(p)
           /\ call' = Called("frame", "none", dtMs, gameOver(p.g))
    /\ UNCHANGED <<enemyAI, levels, well, constellation, cells, objects, result>>

\* The callback handleGameOver has scheduled runs.
MenuTimeout(i) ==
    /\ i \in DOMAIN timers
    /\ SetApp(returnToMenu([App EXCEPT !.timers = RemoveAt(@, i)]))
    /\ call' = Called("timeout", "none", 0, FALSE)
    /\ UNCHANGED <<enemyAI, levels, well, constellation, cells, objects, result>>

\* The button 'Menu Principal' of the pause and game-over screens.
ReturnToMenu ==
    /\ app.screen \in {"pause", "gameOver"}
    /\ SetApp(returnToMenu(App))
    /\ call' = Called("returnToMenu", "none", 0, FALSE)
    /\ UNCHANGED <<enemyAI, levels, well, constellation, cells, objects, result>>

\* The pause key.
TogglePause ==
    /\ app.currentMode = "game"
    /\ SetApp(togglePause(App))
    /\ call' = Called("pause", "none", 0, FALSE)
    /\ UNCHANGED <<enemyAI, levels, well, constellation, cells, objects, result>>

\* A direction key.
AppSetDirection(d) ==
    /\ app.currentMode = "game"
    /\ SetApp([App EXCEPT !.g = engineSetDirection(@, d)])
    /\ call' = Called("setDirection", d, 0, FALSE)
    /\ UNCHANGED <<enemyAI, levels, well, constellation, cells, objects, result>>

NextApp ==
    \/ \E dtMs \in TickTimes : AppStartGame(dtMs)
    \/ \E dtMs \in TickTimes : Frame(dtMs)
    \/ \E i \in 1..MaxTimers : MenuTimeout(i)
    \/ ReturnToMenu
    \/ TogglePause
    \/ \E d \in {"up", "down"} : AppSetDirection(d)

SpecApp == InitApp /\ [][NextApp]_vars

(***************************************************************************)
(* Claims about the Snake.                                                 *)
(***************************************************************************)
Opp(v) == [x |-> -v.x, y |-> -v.y]
Perpendicular(v, w) == v.x * w.x + v.y * w.y = 0
ArmorLevel(s) == IF "armor" \in DOMAIN s.activePowerUps THEN s.activePowerUps["armor"].level ELSE 0
Pos(seg) == <<seg.x, seg.y>>
\* r is m / 100 rounded to the nearest integer, a half going up.
IsRounded(r, m) == 100 * r - 50 <= m /\ m < 100 * r + 50

\* C2: for a living agent, whatever setDirection calls are made between two
\* advances, the direction the second advance commits is never the exact
\* opposite of the direction the first one committed (the current direction
\* changes at an advance only).
C2_NoReversal ==
    [][/\ (call'.op = "update" /\ snake.alive) => snake'.direction # Opp(snake.direction)
       /\ call'.op # "update" => snake'.direction = snake.direction]_vars

\* C2 witness: an advance has committed "left" on an agent that started facing
\* right, so it turned twice through setDirection calls.
C2_Witness ==
    /\ call.op = "update"
    /\ snake.alive
    /\ snake.direction = [x |-> -1, y |-> 0]

C4_Advance ==
    [][(call'.op = "update" /\ snake.alive) =>
        LET n == Len(snake.segments)
            d == snake'.direction
            f == snake.gravitationalForce
            dx == snake'.segments[1].x - snake.segments[1].x
            dy == snake'.segments[1].y - snake.segments[1].y
        IN  /\ Len(snake'.segments) = n
            /\ IsRounded(dx, 50 * d.x * snake.speed + 3 * f.x)
            /\ IsRounded(dy, 50 * d.y * snake.speed + 3 * f.y)
            /\ \A i \in 2..n : /\ Pos(snake'.segments[i]) = Pos(snake.segments[i - 1])
                                /\ snake'.segments[i].type = snake.segments[i].type
            /\ snake'.segments[1].type = snake.segments[1].type
            /\ snake'.gravitationalForce = [x |-> 0, y |-> 0]
            /\ (f = [x |-> 0, y |-> 0] /\ snake.speed = 2) => (dx = d.x /\ dy = d.y)]_vars

\* C4 witness: a boosted agent of two segments has advanced, and its second
\* segment is two cells behind the head.
C4_Witness ==
    /\ call.op = "update"
    /\ snake.alive
    /\ snake.boostActive
    /\ Len(snake.segments) = 2
    /\ snake.segments[1].x = snake.segments[2].x + 2

\* C5: grow(kind) on a living agent appends exactly one segment of that kind
\* at the previous tail's position and leaves the others as they were;
\* afterwards the armor level is the number of armored segments and the
\* magnetism entry exists exactly when there is a magnetic segment, with
\* range 30 times their number.
C5_Grow ==
    [][(call'.op = "grow" /\ snake.alive) =>
        LET n == Len(snake.segments)
            armored == Cardinality({i \in DOMAIN snake'.segments : snake'.segments[i].type = "armored"})
            magnetic == Cardinality({i \in DOMAIN snake'.segments : snake'.segments[i].type = "magnetic"})
        IN  /\ Len(snake'.segments) = n + 1
            /\ snake'.segments[n + 1].type = call'.arg
            /\ Pos(snake'.segments[n + 1]) = Pos(snake.segments[n])
            /\ \A i \in 1..n : snake'.segments[i] = snake.segments[i]
            /\ ArmorLevel(snake') = armored
            /\ ("magnetism" \in DOMAIN snake'.activePowerUps) <=> (magnetic >= 1)
            /\ magnetic >= 1 => snake'.activePowerUps["magnetism"].range = 30 * magnetic]_vars

\* C5 witness: grow("magnetic") has acted on an agent that already had an
\* armored segment.
C5_Witness ==
    /\ call.op = "grow"
    /\ call.arg = "magnetic"
    /\ Len(snake.segments) = 3
    /\ snake.segments[2].type = "armored"
    /\ snake.alive

\* C6 as stated: takeDamage on an invulnerable agent returns false and changes
\* nothing, and takeDamage on an agent whose armor level is 0 always kills it
\* and returns true.
C6_Original ==
    [][call'.op = "takeDamage" =>
        /\ snake.invulnerable => (snake' = snake /\ call'.ret = FALSE)
        /\ ArmorLevel(snake) = 0 => (~snake'.alive /\ call'.ret = TRUE)]_vars

\* C6 amended: takeDamage on an invulnerable agent returns false and changes
\* nothing, and takeDamage on an agent that is not invulnerable and whose
\* armor level is 0 always kills it and returns true.
C6_TakeDamage ==
    [][call'.op = "takeDamage" =>
        /\ snake.invulnerable => (snake' = snake /\ call'.ret = FALSE)
        /\ (~snake.invulnerable /\ ArmorLevel(snake) = 0)
                => (~snake'.alive /\ call'.ret = TRUE)]_vars

\* C6 witness: an agent whose invulnerability has run out (the countdown went
\* below zero) and that has no armored segment was hit and died.
C6_Witness ==
    /\ call.op = "takeDamage"
    /\ call.ret = TRUE
    /\ ~snake.alive
    /\ snake.invulnerabilityTime < 0
    /\ ArmorLevel(snake) = 0

\* The state part of C7: there is always a segment, segment 0 is the head,
\* and an invulnerable agent has a countdown still running.
C7_State ==
    /\ Len(snake.segments) >= 1
    /\ snake.segments[1].type = "head"
    /\ snake.invulnerable => snake.invulnerabilityTime > 0

\* C7: a successful armor roll on a living agent that is not invulnerable and has
\* armor level L >= 1 removes exactly one armored segment behind the head,
\* leaves armor level L - 1 and the agent alive and invulnerable; each
\* advance of a living agent takes its deltaTime off the countdown and the
\* invulnerability ends when the countdown reaches 0; there is always at
\* least one segment and segment 0 is the head.
C7_ArmorSaves ==
    /\ [](C7_State)
    /\ [][/\ (/\ call'.op = "takeDamage"
               /\ snake.alive
               /\ ~snake.invulnerable
               /\ ArmorLevel(snake) >= 1
               /\ call'.num < (IF 2 * ArmorLevel(snake) < 8 THEN 2 * ArmorLevel(snake) ELSE 8))
              => /\ \E i \in 2..Len(snake.segments) :
                        /\ snake.segments[i].type = "armored"
                        /\ snake'.segments = RemoveAt(snake.segments, i)
                 /\ ArmorLevel(snake') = ArmorLevel(snake) - 1
                 /\ snake'.invulnerable
                 /\ snake'.alive
                 /\ call'.ret = FALSE
          /\ (call'.op = "update" /\ snake.alive /\ snake.invulnerable)
              => /\ snake'.invulnerabilityTime = snake.invulnerabilityTime - call'.num
                 /\ snake'.invulnerable <=> (snake'.invulnerabilityTime > 0)]_vars

\* C7 witness: a hit was survived: the agent is alive, invulnerable for
\* 1000 ms, and still has an armored segment left.
C7_Witness ==
    /\ call.op = "takeDamage"
    /\ call.ret = FALSE
    /\ snake.alive
    /\ snake.invulnerable
    /\ snake.invulnerabilityTime = 1000
    /\ Len(snake.segments) = 2
    /\ snake.segments[2].type = "armored"

(***************************************************************************)
(* Claims about the SpatialHash.                                           *)
(***************************************************************************)
\* The cells a bounding box [x, x + width) by [y, y + height) overlaps, by
\* the rectangle test of the source.
KeyUniverse == (-2..3) \X (-2..3)
Overlapped(x, y, width, height) ==
    {k \in KeyUniverse :
        rectsOverlap(x, y, width, height,
                     k[1] * CellHalves, k[2] * CellHalves, CellHalves, CellHalves)}
InSomeCell(cs, o) == \E k \in DOMAIN cs : o \in Range(cs[k])
NoDuplicates(seq) == \A i, j \in DOMAIN seq : seq[i] = seq[j] => i = j
QueryDistance2(o) ==
    calculateDistance2(call.args[1], call.args[2], objects[o].x, objects[o].y)

\* C8: right after add(object, x, y, ...), queryPoint(x, y) with radius 0
\* includes the object; right after remove(object) the object is a member of
\* no cell and queryPoint returns it at no position.  The statement as the
\* specification makes it.
C8_Original ==
    [][/\ call'.op = "add" =>
              call'.args[1] \in Range(queryPoint([cells |-> cells', objects |-> objects'],
                                                 call'.args[2], call'.args[3], 0))
       /\ call'.op = "remove" =>
              /\ ~InSomeCell(cells', call'.args[1])
              /\ \A p \in Positions, radius \in Radii :
                     call'.args[1] \notin
                         Range(queryPoint([cells |-> cells', objects |-> objects'],
                                          p[1], p[2], radius))]_vars

C9_State ==
    /\ \A o \in DOMAIN objects :
           /\ Range(objects[o].cellKeys)
                  = Overlapped(objects[o].x, objects[o].y, objects[o].width, objects[o].height)
           /\ \A k \in KeyUniverse :
                  k \in Range(objects[o].cellKeys)
                      <=> (k \in DOMAIN cells /\ o \in Range(cells[k]))
    /\ \A k \in DOMAIN cells :
           /\ cells[k] # <<>>
           /\ \A o \in Range(cells[k]) : o \in DOMAIN objects

\* C9: after any sequence of add, remove, update and clear, the cell keys
\* recorded for a registered object are exactly the cells its stored
\* bounding box overlaps and the object is a member of exactly those cells;
\* every member of a cell is registered; no cell is empty; and an update
\* that leaves the set of overlapped cells unchanged changes the membership
\* of no cell.  The statement as the specification makes it.
C9_Original ==
    /\ []C9_State
    /\ [][(/\ call'.op = "update"
           /\ call'.args[1] \in DOMAIN objects
           /\ LET o == call'.args[1]
              IN  Overlapped(call'.args[2], call'.args[3], call'.args[4], call'.args[5])
                      = Overlapped(objects[o].x, objects[o].y,
                                   objects[o].width, objects[o].height))
          => /\ DOMAIN cells' = DOMAIN cells
             /\ \A k \in DOMAIN cells : Range(cells'[k]) = Range(cells[k])]_vars

\* C10: queryNearest(x, y, count, maxDistance, filter) returns at most count
\* objects, each registered object at most once, all accepted by the filter
\* and within maxDistance of (x, y), in order of distance, and no accepted
\* registered object within maxDistance that was left out is nearer than
\* one that was returned or could have filled a free slot.  The statement
\* as the specification makes it.
C10_Original ==
    call.op = "queryNearest" =>
        /\ Len(result) <= call.args[3]
        /\ NoDuplicates(result)
        /\ \A i \in DOMAIN result :
               /\ result[i] \in DOMAIN objects
               /\ result[i] \in Filter(call.args[5])
               /\ QueryDistance2(result[i]) <= call.args[4] * call.args[4]
        /\ \A i, j \in DOMAIN result :
               i < j => QueryDistance2(result[i]) <= QueryDistance2(result[j])
        /\ \A o \in (DOMAIN objects \cap Filter(call.args[5])) \ Range(result) :
               QueryDistance2(o) <= call.args[4] * call.args[4]
                   => /\ Len(result) = call.args[3]
                      /\ \A i \in DOMAIN result :
                             QueryDistance2(result[i]) <= QueryDistance2(o)

\* C11: queryPoint(x, y, radius) with radius > 0 returns each object at most
\* once, and returns a registered object exactly when the object is in a
\* cell that overlaps the square of side 2 * radius centred on (x, y) and its
\* stored position is at distance radius or less from (x, y).  The statement
\* as the specification makes it.
C11_Original ==
    (call.op = "queryPoint" /\ call.args[3] > 0) =>
        LET x == call.args[1]
            y == call.args[2]
            radius == call.args[3]
            square == Overlapped(x - radius, y - radius, 2 * radius, 2 * radius)
        IN  /\ NoDuplicates(result)
            /\ Range(result) \subseteq DOMAIN objects
            /\ \A o \in DOMAIN objects :
                   o \in Range(result)
                       <=> /\ \E k \in square : k \in DOMAIN cells /\ o \in Range(cells[k])
                           /\ QueryDistance2(o) <= radius * radius

\* The objects the filter of the call accepts whose bounding box contains the
\* i-th sample point of the ray of the call.
RayHits(i) ==
    LET x == call.args[1] + call.args[3] * i * (CellHalves \div 2)
        y == call.args[2] + call.args[4] * i * (CellHalves \div 2)
    IN  {o \in DOMAIN objects \cap Filter(call.args[6]) :
            pointInRect(x, y, objects[o].x, objects[o].y, objects[o].width, objects[o].height)}

\* C12: raycast samples the points at the multiples of half a cell size
\* along the direction and returns the first object the filter accepts whose
\* bounding box contains a sample point; it returns none once maxDistance is
\* exhausted, so the distance of a hit is maxDistance or less.  The statement
\* as the specification makes it.
C12_Original ==
    call.op = "raycast" =>
        LET stepSize == CellHalves \div 2
            within == {i \in 1..(call.args[5] \div stepSize) : RayHits(i) # {}}
        IN  /\ call.ret <=> within # {}
            /\ call.ret =>
                   /\ call.num <= call.args[5]
                   /\ \E i \in within :
                          /\ call.num = i * stepSize
                          /\ \A j \in within : i <= j
                          /\ result[1] \in RayHits(i)

\* C13: add(object, x, y, w, h) with a zero or negative width or height
\* registers the object as if its size were at least 1x1: the object is in
\* the cell that contains (x, y), at least, and queryPoint(x, y) returns it.
\* The statement as the specification makes it.
C13_Original ==
    [][(call'.op = "add" /\ (call'.args[4] <= 0 \/ call'.args[5] <= 0)) =>
          LET o == call'.args[1]
              key == getCellKey(call'.args[2], call'.args[3])
          IN  /\ o \in DOMAIN objects'
              /\ key \in Range(objects'[o].cellKeys)
              /\ key \in DOMAIN cells'
              /\ o \in Range(cells'[key])
              /\ o \in Range(queryPoint([cells |-> cells', objects |-> objects'],
                                        call'.args[2], call'.args[3], 0))]_vars

(***************************************************************************)
(* Claims about the GameEngine.                                            *)
(***************************************************************************)
C1_State == engine.gameState \in {"stopped", "running", "paused"}

\* C1: the run state is always one of stopped, running, paused; over any
\* sequence of startNewGame, pause, resume, stop and update calls, pause
\* only changes running to paused, resume only changes paused to running,
\* stopped becomes running only through startNewGame, and an update changes
\* running to stopped exactly when a player collision in it brings the lives
\* to 0 or below, the snapshot it returns then reporting gameOver.
C1_RunStateMachine ==
    /\ []C1_State
    /\ [][/\ Pause =>
                engine'.gameState = IF engine.gameState = "running" THEN "paused"
                                    ELSE engine.gameState
          /\ Resume =>
                engine'.gameState = IF engine.gameState = "paused" THEN "running"
                                    ELSE engine.gameState
          /\ (engine.gameState = "stopped" /\ engine'.gameState # "stopped") =>
                /\ \E spawn \in Spawns : StartNewGame(spawn)
                /\ engine'.gameState = "running"
          /\ (engine.gameState = "paused" /\ engine'.gameState = "running") =>
                (Resume \/ \E spawn \in Spawns : StartNewGame(spawn))
          /\ (engine.gameState # "paused" /\ engine'.gameState = "paused") =>
                (Pause /\ engine.gameState = "running")
          /\ call'.op = "update" =>
                IF engine.gameState = "running"
                THEN /\ engine'.gameState \in {"running", "stopped"}
                     /\ engine'.gameState = "stopped"
                            <=> (engine'.lives < engine.lives /\ engine'.lives <= 0)
                     /\ call'.ret <=> engine'.gameState = "stopped"
                ELSE /\ engine' = engine
                     /\ snake' = snake
                     /\ call'.ret <=> engine.gameState = "stopped"
         ]_vars

\* An update in which the player ran into the wall with one life left has
\* stopped the engine and returned a snapshot that reports gameOver.
C1_Witness ==
    /\ call.op = "update"
    /\ call.ret
    /\ engine.gameState = "stopped"
    /\ engine.lives = 0
    /\ HeadOutside(snake)

(***************************************************************************)
(* Claims about the ConstellationManager.                                  *)
(***************************************************************************)
\* C14: collectStar(tag) with a tag that the current pattern does not have,
\* or that is already collected, returns false and leaves the collected
\* stars, the history of completions and the morphing state unchanged (and
\* schedules nothing).
C14_CollectStarRejects ==
    [][(/\ call'.op = "collectStar"
        /\ \/ call'.arg \notin stars(constellation.currentPattern)
           \/ call'.arg \in constellation.collectedStars)
       => /\ call'.ret = FALSE
          /\ constellation' = constellation
          /\ timers' = timers]_vars

\* A star of a completed triangle was offered again while the morphing was
\* under way, and was refused.
C14_Witness ==
    /\ call.op = "collectStar"
    /\ call.ret = FALSE
    /\ call.arg \in constellation.collectedStars
    /\ constellation.collectedStars = stars(constellation.currentPattern)
    /\ constellation.morphingActive
    /\ timers # <<>>

\* C15: collectStar returns true exactly on the call that brings the number
\* of collected stars to the number the pattern requires, which happens at
\* most once as long as the stars are not cleared; that call appends exactly
\* one entry to the history of completions and starts the morphing (flag
\* set, 3000 ms, one callback scheduled); every other call returns false,
\* appends nothing and starts nothing.
C15_CompletesOnce ==
    [][call'.op = "collectStar" =>
          LET required == stars(constellation.currentPattern)
              collected == constellation.collectedStars
          IN  /\ call'.ret <=> /\ call'.arg \in required \ collected
                               /\ collected \cup {call'.arg} = required
              /\ collected = required => call'.ret = FALSE
              /\ call'.ret =>
                     /\ constellation'.completedPatterns
                            = Append(constellation.completedPatterns, constellation.targetPattern)
                     /\ constellation'.collectedStars = required
                     /\ constellation'.morphingActive
                     /\ constellation'.morphTimer = 3000
                     /\ Len(timers') = Len(timers) + 1
              /\ ~call'.ret =>
                     /\ constellation'.completedPatterns = constellation.completedPatterns
                     /\ constellation'.morphingActive = constellation.morphingActive
                     /\ constellation'.morphTimer = constellation.morphTimer
                     /\ timers' = timers]_vars

\* The last star of the diamond was collected as the second completion.
C15_Witness ==
    /\ call.op = "collectStar"
    /\ call.ret = TRUE
    /\ constellation.currentPattern = "diamond"
    /\ constellation.collectedStars = stars("diamond")
    /\ Len(constellation.completedPatterns) = 2
    /\ constellation.completedPatterns[2] = "diamond"

\* C16: the pattern selected at a completion is never one of the two patterns
\* before it, so in particular never the pattern just completed (the four
\* patterns are never exhausted by a memory of two).  The statement as the
\* specification makes it, for the pattern just completed.
C16_Original ==
    [][(call'.op = "collectStar" /\ call'.ret) =>
          timers'[Len(timers')] # constellation.targetPattern]_vars

\* C17: setPattern(id) with an unknown id changes nothing; with a known id it
\* makes that pattern current, empties the collected stars and cancels the
\* morphing under way, so that a callback scheduled by an earlier completion
\* that runs afterwards changes neither the current pattern nor the collected
\* stars.  The statement as the specification makes it.
C17_Original ==
    [][/\ (call'.op = "setPattern" /\ ~call'.ret) => constellation' = constellation
       /\ (call'.op = "setPattern" /\ call'.ret) =>
              /\ constellation'.currentPattern = call'.arg
              /\ constellation'.collectedStars = {}
              /\ ~constellation'.morphingActive
              /\ constellation'.morphTimer = 0
       /\ (call.op = "setPattern" /\ call.ret /\ call'.op = "timeout") =>
              /\ constellation'.currentPattern = constellation.currentPattern
              /\ constellation'.collectedStars = constellation.collectedStars]_vars

C18_State ==
    constellation.collectedStars \subseteq stars(constellation.currentPattern)

HeadDistance ==
    LET dx == well.x - (10 * snake.segments[1].x + 5)
        dy == well.y - (10 * snake.segments[1].y + 5)
    IN  Sqrt(dx * dx + dy * dy)

\* C19: for every type of well, every strength and every head within the
\* radius, each component of the force that applyGravity hands to the snake
\* is 0.5 at most in absolute value.  The statement as the specification
\* makes it, for the heads that are not at the centre of the well.
C19_Original ==
    (call.op = "applyGravity" /\ call.ret /\ HeadDistance > 0) =>
        \A i \in 1..2 :
            /\ FracLeq(result[i], Frac(1, 2))
            /\ FracLeq(Frac(-1, 2), result[i])

\* C20: for every type of well, a snake whose head centre is at distance 0
\* from the well receives the force (0, 0): nothing that is not a finite
\* number reaches its force buffer.  The statement as the specification
\* makes it.
C20_Original ==
    (call.op = "applyGravity" /\ HeadDistance = 0) =>
        /\ call.ret => result = <<Frac(0, 1), Frac(0, 1)>>
        /\ snake.gravitationalForce = NoForce

\* C21: an active well of radius 0 is unbounded by distance and hands its
\* force to a living snake at any distance, whereas a well of a radius above
\* 0 hands no force to a snake whose head centre is farther than radius / 20
\* cells from it.  The statement as the specification makes it.
C21_Original ==
    (call.op = "applyGravity" /\ well.active /\ snake.alive) =>
        /\ well.radius = 0 => call.ret
        /\ (well.radius > 0 /\ 2 * HeadDistance > well.radius) =>
               /\ ~call.ret
               /\ snake.gravitationalForce = NoForce

\* C23: with a repel well of strength 1.0 whose range covers the head (the
\* head not being at the well's centre), the head's move in the tick differs
\* from the move the same snake makes without the force, and the difference
\* points away from the centre of the well.
C23_Original ==
    [][(/\ call'.op = "update"
        /\ call.ret
        /\ well.type = "repel"
        /\ well.strength = 10
        /\ snake.alive
        /\ HeadDistance > 0) =>
        LET free == updateExact([snake EXCEPT !.gravitationalForce = NoForce], call'.num)
            awayX == (10 * snake.segments[1].x + 5) - well.x
            awayY == (10 * snake.segments[1].y + 5) - well.y
            moreX == snake'.segments[1].x - free.segments[1].x
            moreY == snake'.segments[1].y - free.segments[1].y
        IN  moreX * awayX + moreY * awayY > 0]_vars

C28_Original ==
    (timers # <<>> /\ timers[Len(timers)].left > 0) =>
        /\ snake.boostActive
        /\ snake.speed = BoostSpeed(snake, timers[Len(timers)].boosters)

\* C22: a tick of the running engine (an update after at least
\* updateInterval) advances the phase of every force field of the level by
\* the time that has passed.
C22_Original ==
    [][(/\ call'.op = "update"
        /\ engine.gameState = "running"
        /\ call'.args[1] >= updateInterval
        /\ Len(engine'.gravityWells) = Len(engine.gravityWells)) =>
        \A i \in DOMAIN engine.gravityWells :
            engine'.gravityWells[i].phase = engine.gravityWells[i].phase + call'.args[1]]_vars

\* C27: after startNewGame the engine is running with level 1 and 3 lives
\* (the score is 0, this specification starting every call from 0), the
\* player is a single head at the centre of the grid, and the force fields
\* and the enemies are those of level 1's descriptor.
C27_Original ==
    [][(call'.op = "startNewGame") =>
        /\ engine'.gameState = "running"
        /\ engine'.level = 1
        /\ engine'.lives = 3
        /\ snake'.segments = <<[x |-> startX, y |-> startY, type |-> "head"]>>
        /\ engine'.gravityWells = LevelWells(1)
        /\ engine'.enemies =
               [i \in DOMAIN LevelEnemies(1) |->
                   NewSnake(LevelEnemies(1)[i].x, LevelEnemies(1)[i].y, "enemy")]]_vars

\* The game of the tick being taken, when updateGame has advanced the snakes
\* and is about to check the collisions.
Advanced == advanceSnakes(Game, call'.args[1], call'.arg)

\* A tick is being taken: update() has found the engine running and
\* updateInterval passed.
Ticking ==
    /\ call'.op = "update"
    /\ engine.gameState = "running"
    /\ call'.args[1] >= updateInterval

\* No snake of g has its head outside the grid, on its own body or on an
\* item: the pass over the pairs of snakes is the only part of
\* checkCollisions that acts.
OnlyPairs(g) ==
    LET all == <<g.playerSnake>> \o g.enemies
    IN  \A i \in DOMAIN all :
            /\ ~HeadOutside(all[i])
            /\ ~HeadOnBody(all[i])
            /\ \A k \in DOMAIN g.collectibles :
                   Pos(g.collectibles[k]) # Pos(getHead(all[i]))

\* C25: when the player and an enemy of equal segment counts have their
\* heads in the same cell as the collisions of a tick are checked, neither
\* of the two is alive after that tick.
C25_Original ==
    [][(Ticking /\ OnlyPairs(Advanced)) =>
        \A e \in DOMAIN Advanced.enemies :
            (/\ Pos(getHead(Advanced.enemies[e])) = Pos(getHead(Advanced.playerSnake))
             /\ Len(Advanced.enemies[e].segments) = Len(Advanced.playerSnake.segments)) =>
                LET p == checkPairs(Pass(Advanced, Advanced.enemies,
                                         DOMAIN Advanced.enemies), 0, 1)
                IN  /\ ~snake'.alive
                    /\ ~p.all[e].alive]_vars

\* Snake a of a game has its head on a segment of snake b.
HeadOn(a, b) == checkSnakeCollision(a, b)

\* C26: when, as the collisions of a tick are checked, the head of an enemy
\* is on a segment of the player or the head of the player on a segment of
\* the enemy, the collision is resolved in that tick: with fewer segments
\* the enemy is removed and the player has one segment more, with more
\* segments the player has lost a life, with as many the enemy is removed
\* and the player has lost a life.
C26_Original ==
    [][(Ticking /\ OnlyPairs(Advanced) /\ Len(Advanced.enemies) = 1) =>
        LET player == Advanced.playerSnake
            enemy == Advanced.enemies[1]
        IN  (HeadOn(enemy, player) \/ HeadOn(player, enemy)) =>
                /\ Len(enemy.segments) < Len(player.segments) =>
                       /\ engine'.enemies = <<>>
                       /\ Len(snake'.segments) = Len(player.segments) + 1
                       /\ engine'.lives = engine.lives
                /\ Len(enemy.segments) > Len(player.segments) =>
                       engine'.lives = engine.lives - 1
                /\ Len(enemy.segments) = Len(player.segments) =>
                       /\ engine'.enemies = <<>>
                       /\ engine'.lives = engine.lives - 1]_vars

\* The place in the item list of the item the player's head is moved onto
\* by the tick that is being taken, 0 when there is none.
Collected == collectedByPlayer(advanceSnakes(ScoredGame, call'.num, "none"))

\* C24: when a tick moves the player's head onto the cell of an item whose
\* star is the only one the current pattern still needs, then after the tick
\* no item lies on that cell, the player has one segment more, of the item's
\* kind, the score has grown by the item's value plus the bonus of the
\* pattern completed, the level is one higher, and a pattern with no star
\* collected is current.
C24_Original ==
    [][(/\ call'.op = "update"
        /\ engine.gameState = "running"
        /\ call'.num >= updateInterval
        /\ Collected # 0
        /\ getNeededStars(constellation) = {engine.collectibles[Collected].starType}) =>
           LET item == engine.collectibles[Collected]
           IN  /\ \A k \in DOMAIN engine'.collectibles :
                      ~(engine'.collectibles[k].x = item.x /\ engine'.collectibles[k].y = item.y)
               /\ Len(snake'.segments) = Len(snake.segments) + 1
               /\ snake'.segments[Len(snake'.segments)].type = item.segmentType
               /\ engine'.score = engine.score + item.value + bonus(constellation.currentPattern)
               /\ engine'.level = engine.level + 1
               /\ constellation'.currentPattern \in Patterns
               /\ constellation'.collectedStars = {}]_vars

\* C30: while the engine is paused or stopped, a step that is no command
\* (a scheduled callback that runs) changes neither the player's speed,
\* boost flag and buffered direction nor the current pattern and the stars
\* collected.
C30_Original ==
    [][(engine.gameState \in {"paused", "stopped"} /\ call'.op = "timeout") =>
           /\ snake'.speed = snake.speed
           /\ snake'.boostActive = snake.boostActive
           /\ snake'.nextDirection = snake.nextDirection
           /\ constellation'.currentPattern = constellation.currentPattern
           /\ constellation'.collectedStars = constellation.collectedStars]_vars

\* C37: the bonus of 100 points for a level whose enemies are all destroyed
\* is added once: a tick that begins with no enemy left, in a level whose
\* descriptor has enemies, and that stays in the level adds no bonus.  (The
\* items of a tick are worth 50 points at most, so that 100 points or more
\* added in a tick without an enemy and without a completed constellation
\* hold the bonus.)
C37_Original ==
    [][(/\ Ticking
        /\ engine.enemies = <<>>
        /\ Len(LevelEnemies(engine.loaded)) > 0
        /\ engine'.level = engine.level) =>
           call'.num < 100]_vars

\* C38: while the player is invulnerable as the collisions of a tick are
\* checked, no collision takes a life, and none stops the game.
C38_Original ==
    [][(Ticking /\ Advanced.playerSnake.invulnerable) =>
           /\ engine'.lives = engine.lives
           /\ engine'.gameState = "running"]_vars

\* The game of the tick being taken with an AI for each enemy, when
\* updateGame has advanced the snakes and is about to check the collisions.
AdvancedEach ==
    advanceEach(Game, call'.args[1], SubSeq(call'.args, 2, Len(call'.args)))

\* C35: after the collision pass of a tick no enemy that is left in
\* this.enemies has its head outside the grid or on its own body, and every
\* enemy that left the grid or ran into itself has brought its 50 points,
\* however many did so in the tick.
C35_Original ==
    [][Ticking =>
        LET out == {i \in DOMAIN AdvancedEach.enemies :
                       \/ HeadOutside(AdvancedEach.enemies[i])
                       \/ HeadOnBody(AdvancedEach.enemies[i])}
        IN  /\ \A i \in DOMAIN engine'.enemies :
                   /\ ~HeadOutside(engine'.enemies[i])
                   /\ ~HeadOnBody(engine'.enemies[i])
            /\ call'.num >= 50 * Cardinality(out)]_vars

\* C36: the lives are never negative, and a tick takes one life at most.
C36_Original ==
    [][/\ engine'.lives >= 0
       /\ Ticking => engine'.lives >= engine.lives - 1]_vars

\* C40: while the engine is paused or stopped, setDirection, activateBoost
\* and update() leave the player, the enemies, the items, the level and the
\* lives as they are and add no points.
C40_FrozenCommands ==
    [][(/\ engine.gameState \in {"paused", "stopped"}
        /\ call'.op \in {"setDirection", "activateBoost", "update"}) =>
           /\ snake' = snake
           /\ engine' = engine
           /\ call'.num = 0]_vars

\* A paused game with enemies and items whose player could turn upwards
\* and could boost has been given the command to turn upwards.
C40_Witness ==
    /\ engine.gameState = "paused"
    /\ call.op = "setDirection"
    /\ call.arg = "up"
    /\ snake.direction.y = 0
    /\ snake.nextDirection.y = 0
    /\ snake.boostCooldown <= 0
    /\ CountType(snake.segments, "booster") > 0
    /\ engine.enemies # <<>>
    /\ engine.collectibles # <<>>

\* C31: loadLevel(n) gives the manager the descriptor that a manager just
\* made gives, whatever was loaded, saved or reset before and whatever the
\* seed was; for a level with a template the descriptor has the content of
\* the template.
C31_SameDescriptor ==
    [][(call'.op = "loadLevel") =>
        LET n == call'.num
        IN  /\ \A now \in Nows :
                   levels'.levelData = loadLevel(NewLevelManager(now), n).levelData
            /\ n \in TemplateNumbers =>
                   LET d == levels'.levelData
                   IN  Template(d.gravityWells, d.enemies, d.constellationPattern,
                                d.collectibleCount, d.timeLimit, d.difficulty, d.theme)
                           = levelTemplates(n)]_vars

\* Level 16, which has no template, has been loaded by a manager that had
\* loaded and saved another generated level before and whose seed of the
\* construction is gone.
C31_Witness ==
    /\ call.op = "loadLevel"
    /\ call.num = 16
    /\ levels.levelData.generated
    /\ levels.stored.kind = "object"
    /\ levels.stored.currentLevel \in {7, 8, 10}
    /\ levels.stored.proceduralSeed \notin Nows

\* C32: when loadProgress finds data it cannot read (a text that is no JSON,
\* or the text of null), the manager is at level 1 with the seed of the
\* moment afterwards.
C32_Original ==
    [][(call'.op = "loadProgress" /\ Throws(levels.stored)) =>
           /\ levels'.currentLevel = 1
           /\ levels'.proceduralSeed = call'.num]_vars

(***************************************************************************)
(* Claims about the AI of the enemies.                                     *)
(***************************************************************************)
\* The game as the AI of the enemy sees it in the tick taken: the player
\* has been advanced, the enemy has not.
Seen == [Game EXCEPT !.playerSnake = update(@, call'.args[1])]

LeastOf(S) == CHOOSE m \in S : \A n \in S : m <= n

\* A cell is safe when it is inside the grid, no living snake has a segment
\* on it and it is not nearer than 2 to the centre of a repelling well.
SafeCell(g, c) ==
    /\ c.x \in 0..(gridWidth - 1)
    /\ c.y \in 0..(gridHeight - 1)
    /\ \A s \in {g.playerSnake} \cup Range(g.enemies) : s.alive => ~OnSegment(s, c.x, c.y)
    /\ \A w \in Range(g.gravityWells) :
           w.type = "repel" =>
               (w.x - 10 * c.x) * (w.x - 10 * c.x) + (w.y - 10 * c.y) * (w.y - 10 * c.y) >= 400

Manhattan(c, target) == Abs(target.x - c.x) + Abs(target.y - c.y)

\* C34: the direction calculateBestDirection returns leads to a safe cell
\* whenever one of the four directions does, and no direction to a safe
\* cell leads nearer (in Manhattan distance) to the target.
C34_BestDirection ==
    [][(call'.op = "update" /\ call'.args[3] # 0) =>
           LET s == Seen.enemies[1]
               target == [x |-> call'.args[4], y |-> call'.args[5]]
               returned == Alternatives[call'.args[3]]
               safe == {name \in DirNames : SafeCell(Seen, StepFrom(s, name))}
           IN  safe # {} =>
                   /\ returned \in safe
                   /\ \A name \in safe :
                          Manhattan(StepFrom(s, returned), target)
                              <= Manhattan(StepFrom(s, name), target)]_vars

\* A tick in which the AI has asked for the way to a target that is not
\* where the enemy is, in a level with a repelling well and a player of two
\* segments; the snake has taken the direction returned and lives.
C34_Witness ==
    /\ call.op = "update"
    /\ call.args[3] # 0
    /\ call.arg = Alternatives[call.args[3]]
    /\ engine.enemies # <<>>
    /\ engine.gravityWells # <<>>
    /\ Len(snake.segments) = 2
    /\ Manhattan(getHead(engine.enemies[1]), [x |-> call.args[4], y |-> call.args[5]]) > 0

\* C33: when a decision is taken and the cell ahead of the enemy is unsafe,
\* the direction buffered after the pass is the first of up, down, left,
\* right (the current one left out) that leads to a safe cell, and is the
\* one buffered before the pass when none does.
C33_Original ==
    [][(call'.op = "update" /\ call'.args[2] # 0) =>
           LET s == Seen.enemies[1]
               SafeTo(name) == isPositionSafe(Seen, 1, StepFrom(s, name).x, StepFrom(s, name).y)
               others == {i \in 1..4 : /\ Alternatives[i] # getCurrentDirectionName(s)
                                       /\ SafeTo(Alternatives[i])}
           IN  ~SafeTo(getCurrentDirectionName(s)) =>
                   IF others # {}
                   THEN call'.arg = Alternatives[LeastOf(others)]
                   ELSE call'.arg = Alternatives[call'.args[2]]
      ]_vars

(***************************************************************************)
(* Claims about the application.                                           *)
(***************************************************************************)
\* C39: a running game ceases to run only by a pause, a stop or a return
\* to the menu that is asked for, or with the last life lost.
C39_Original ==
    [][(engine.gameState = "running" /\ engine'.gameState # "running") =>
           \/ call'.op \in {"pause", "stop", "returnToMenu"}
           \/ engine'.lives <= 0]_vars

====
